---- MODULE Spec2Model ----
(***************************************************************************)
(* schema_guard: a declarative PostgreSQL schema (YAML) is reconciled      *)
(* against the live database.  The model follows lib.rs (migrate and its   *)
(* callers), schema.rs (the two passes, template resolution), table.rs     *)
(* (Table::deploy, Table::deploy_fk, the type change classifier),          *)
(* index.rs, grant.rs and loader.rs (load_info_schema).                    *)
(*                                                                         *)
(* Representation.  A name is a string.  A text that the code splits or    *)
(* scans is a sequence of tokens: a column type is the sequence of its     *)
(* base name and the characters after it, <<"varchar","(","6","4",")">>;   *)
(* a reference "app.users" is <<"app","users">>; a name assembled with     *)
(* format!("a_{}_{}") is the sequence of its parts, joined by "_".  An SQL *)
(* statement is a record of its kind and of the values interpolated into   *)
(* it.                                                                     *)
(***************************************************************************)
EXTENDS Integers, Sequences, FiniteSets, TLC

VARIABLES
    yaml,       \* the YAML document handed to migrate: a sequence of schema entries
    options,    \* the MigrationOptions handed to migrate (opt)
    sink,       \* TRUE when a dry-run sink is handed to migrate (dry_run)
    retry,      \* migrate's retry argument
    pc,         \* position of the invocation
    run,        \* number of the migration invocation (1 = first)
    model,      \* parse_yaml_schema's result (schemas): OrderedHashMap<Schema>, as its list
    live,       \* the LiveModel (dbc, InfoSchemaType): schema -> table -> PgTable
    txdb,       \* the database as the open transaction sees it
    committed,  \* the database as committed
    step,       \* index of the next table to deploy in the current pass
    cnt,        \* migrate's counter of modified tables
    plans,      \* one record per Table::deploy / Table::deploy_fk call, in order
    executed,   \* the batches handed to batch_execute, in order
    sunk,       \* the batch lists handed to the dry-run sink, in order
    result,     \* the Result migrate (and its caller) returned
    commits,    \* number of successful tx.commit() calls of this invocation
    existing_str,  \* analyze_type_change called on its own: the argument existing
    desired_str,   \* the argument desired
    change         \* its value, "none" before the call

\* the variables of a call of the classifier on its own
types == <<existing_str, desired_str, change>>

vars == <<yaml, options, sink, retry, pc, run, model, live, txdb, committed, step, cnt,
          plans, executed, sunk, result, commits, existing_str, desired_str, change>>

\* --------------------------------------------------------------------------
\* Generic helpers
\* --------------------------------------------------------------------------

\* Option<T>: None is the empty sequence, Some(x) the sequence of x alone
None == <<>>

Some(x) == <<x>>

IsSome(o) == o # <<>>

EmptyMap == [k \in {} |-> k]

Put(m, k, v) == [x \in (DOMAIN m) \cup {k} |-> IF x = k THEN v ELSE m[x]]

Remove(m, k) == [x \in (DOMAIN m) \ {k} |-> m[x]]

Range(s) == {s[i] : i \in DOMAIN s}

RECURSIVE SeqSum(_)
SeqSum(s) == IF s = <<>> THEN 0 ELSE Head(s) + SeqSum(Tail(s))

RECURSIVE Flatten(_)
Flatten(ss) == IF ss = <<>> THEN <<>> ELSE Head(ss) \o Flatten(Tail(ss))

RECURSIVE SelectIdx(_, _, _)
\* the indices i of s, ascending from i, with s[i] \in S
SelectIdx(s, S, i) ==
    IF i > Len(s) THEN <<>>
    ELSE IF s[i] \in S THEN <<i>> \o SelectIdx(s, S, i + 1)
    ELSE SelectIdx(s, S, i + 1)

\* the permutations of a finite set, as sequences: the iteration orders of a
\* std::collections::HashMap / HashSet holding these keys
Orders(S) ==
    {f \in [1..Cardinality(S) -> S] : \A i, j \in 1..Cardinality(S) : i # j => f[i] # f[j]}

\* --------------------------------------------------------------------------
\* Type strings and the type change classifier (table.rs)
\* --------------------------------------------------------------------------

Digits == {"0", "1", "2", "3", "4", "5", "6", "7", "8", "9"}

DigitVal(d) ==
    CASE d = "0" -> 0 [] d = "1" -> 1 [] d = "2" -> 2 [] d = "3" -> 3 [] d = "4" -> 4
      [] d = "5" -> 5 [] d = "6" -> 6 [] d = "7" -> 7 [] d = "8" -> 8 [] d = "9" -> 9

I32Max == 2147483647

\* str::to_lowercase on one token
LowerTok(t) ==
    CASE t = "NUMERIC" -> "numeric"
      [] t = "VARCHAR" -> "varchar"
      [] t = "TEXT" -> "text"
      [] t = "INT" -> "int"
      [] OTHER -> t

to_lowercase(s) == [i \in DOMAIN s |-> LowerTok(s[i])]

RECURSIVE TrimStart(_)
TrimStart(s) == IF s # <<>> /\ Head(s) = " " THEN TrimStart(Tail(s)) ELSE s

RECURSIVE TrimEnd(_)
TrimEnd(s) ==
    IF s # <<>> /\ s[Len(s)] = " " THEN TrimEnd(SubSeq(s, 1, Len(s) - 1)) ELSE s

trim(s) == TrimEnd(TrimStart(s))

\* str::find of one character: the first position, 0 when absent
RECURSIVE FindFrom(_, _, _)
FindFrom(s, c, i) ==
    IF i > Len(s) THEN 0 ELSE IF s[i] = c THEN i ELSE FindFrom(s, c, i + 1)

find(s, c) == FindFrom(s, c, 1)

RECURSIVE DigitsValue(_, _)
DigitsValue(s, acc) ==
    IF s = <<>> THEN acc ELSE DigitsValue(Tail(s), 10 * acc + DigitVal(Head(s)))

\* str::parse::<i32>().ok(): an optional sign, then digits only, within i32
parse_i32(s) ==
    LET body == IF s # <<>> /\ Head(s) \in {"+", "-"} THEN Tail(s) ELSE s
        neg  == s # <<>> /\ Head(s) = "-"
    IN  IF body = <<>> \/ \E i \in DOMAIN body : body[i] \notin Digits THEN None
        ELSE LET v == DigitsValue(body, 0)
             IN  IF neg THEN (IF v <= I32Max + 1 THEN Some(0 - v) ELSE None)
                 ELSE IF v <= I32Max THEN Some(v) ELSE None

\* str::split(',')
RECURSIVE split_comma(_)
split_comma(s) ==
    LET p == find(s, ",")
    IN  IF p = 0 THEN <<s>>
        ELSE <<SubSeq(s, 1, p - 1)>> \o split_comma(SubSeq(s, p + 1, Len(s)))

\* parse_type_size, the parameters between the parentheses
parse_params(base_type, params) ==
    IF find(params, ",") # 0
    THEN [panic |-> FALSE, base |-> base_type,
          size |-> parse_i32(trim(split_comma(params)[1])),
          scale |-> parse_i32(trim(split_comma(params)[2]))]
    ELSE [panic |-> FALSE, base |-> base_type, size |-> parse_i32(trim(params)),
          scale |-> None]

\* parse_type_size from the position of the parenthesis on
parse_at(type_lower, paren_pos) ==
    IF paren_pos # 0
    THEN IF paren_pos + 1 > Len(type_lower)
         THEN [panic |-> TRUE, base |-> <<>>, size |-> None, scale |-> None]
         ELSE parse_params(trim(SubSeq(type_lower, 1, paren_pos - 1)),
                           SubSeq(type_lower, paren_pos + 1, Len(type_lower) - 1))
    ELSE [panic |-> FALSE, base |-> type_lower, size |-> None, scale |-> None]

\* parse_type_size on the lowercased, trimmed type string
parse_lower(type_lower) == parse_at(type_lower, find(type_lower, "("))


\* (base_type, size, scale); panic is set where the slice
\* &type_lower[paren_pos + 1..type_lower.len() - 1] has begin > end
parse_type_size(type_str) == parse_lower(trim(to_lowercase(type_str)))

\* the base name is the token sequence before the parenthesis; a known alias is
\* one token
normalize_base(t) ==
    IF Len(t) # 1 THEN t
    ELSE LET b == t[1]
         IN  CASE b \in {"int", "int4", "integer", "serial"} -> <<"int4">>
               [] b \in {"int8", "bigint", "bigserial", "serial8"} -> <<"int8">>
               [] b \in {"int2", "smallint", "smallserial", "serial2"} -> <<"int2">>
               [] b \in {"float4", "real"} -> <<"float4">>
               [] b \in {"float", "float8", "double precision", "double"} -> <<"float8">>
               [] b \in {"bool", "boolean"} -> <<"bool">>
               [] b \in {"varchar", "character varying"} -> <<"varchar">>
               [] b \in {"char", "character", "bpchar"} -> <<"char">>
               [] b = "text" -> <<"text">>
               [] b \in {"numeric", "decimal"} -> <<"numeric">>
               [] b \in {"timestamptz", "timestamp with time zone"} -> <<"timestamptz">>
               [] b \in {"timestamp", "timestamp without time zone"} -> <<"timestamp">>
               [] b \in {"timetz", "time with time zone"} -> <<"timetz">>
               [] b \in {"time", "time without time zone"} -> <<"time">>
               [] OTHER -> t

is_safe_promotion(e, d) ==
    <<e, d>> \in {<<<<"int2">>, <<"int4">>>>, <<<<"int2">>, <<"int8">>>>,
                  <<<<"int4">>, <<"int8">>>>, <<<<"float4">>, <<"float8">>>>,
                  <<<<"varchar">>, <<"text">>>>, <<<<"char">>, <<"text">>>>,
                  <<<<"char">>, <<"varchar">>>>}

min_varchar_size(norm_existing, existing_size) ==
    CASE norm_existing = <<"int2">> -> Some(6)
      [] norm_existing = <<"int4">> -> Some(11)
      [] norm_existing = <<"int8">> -> Some(20)
      [] norm_existing = <<"float4">> -> Some(15)
      [] norm_existing = <<"float8">> -> Some(25)
      [] norm_existing = <<"numeric">> ->
            Some(IF IsSome(existing_size) THEN existing_size[1] + 2 ELSE 40)
      [] norm_existing = <<"bool">> -> Some(5)
      [] norm_existing \in {<<"timestamp">>, <<"timestamptz">>} -> Some(32)
      [] norm_existing \in {<<"time">>, <<"timetz">>} -> Some(18)
      [] norm_existing = <<"date">> -> Some(10)
      [] norm_existing = <<"uuid">> -> Some(36)
      [] OTHER -> None

is_safe_to_varchar(norm_existing, existing_size, norm_desired, desired_size) ==
    LET min == min_varchar_size(norm_existing, existing_size)
    IN  CASE norm_desired = <<"text">> -> IsSome(min)
          [] norm_desired = <<"varchar">> /\ IsSome(desired_size) ->
                IsSome(min) /\ desired_size[1] >= min[1]
          [] norm_desired = <<"varchar">> /\ ~IsSome(desired_size) -> IsSome(min)
          [] OTHER -> FALSE

TypeChange == {"NoChange", "SizeExtension", "SizeReduction", "Compatible", "Incompatible"}

\* the branch of analyze_type_change for equal normalised bases
same_base_change(e, d) ==
    IF IsSome(e.size) /\ IsSome(d.size)
    THEN IF e.size = d.size
         THEN CASE IsSome(e.scale) /\ IsSome(d.scale) /\ e.scale = d.scale -> "NoChange"
                [] IsSome(e.scale) /\ IsSome(d.scale) /\ d.scale[1] > e.scale[1] -> "SizeExtension"
                [] IsSome(e.scale) /\ IsSome(d.scale) /\ d.scale[1] < e.scale[1] -> "SizeReduction"
                [] ~IsSome(e.scale) /\ ~IsSome(d.scale) -> "NoChange"
                [] OTHER -> "SizeExtension"
         ELSE IF d.size[1] > e.size[1] THEN "SizeExtension" ELSE "SizeReduction"
    ELSE IF ~IsSome(e.size) /\ ~IsSome(d.size) THEN "NoChange" ELSE "SizeExtension"

\* analyze_type_change once both base types are normalised
normalized_change(e, d, norm_existing, norm_desired) ==
    IF norm_existing = norm_desired THEN same_base_change(e, d)
    ELSE IF is_safe_promotion(norm_existing, norm_desired) THEN "Compatible"
    ELSE IF is_safe_to_varchar(norm_existing, e.size, norm_desired, d.size) THEN "Compatible"
    ELSE "Incompatible"

\* analyze_type_change once both type strings are parsed; "Panic" where
\* parse_type_size panics
parsed_change(e, d) ==
    IF e.panic \/ d.panic THEN "Panic"
    ELSE normalized_change(e, d, normalize_base(e.base), normalize_base(d.base))

analyze_type_change(existing, desired) ==
    parsed_change(parse_type_size(existing), parse_type_size(desired))

\* --------------------------------------------------------------------------
\* Texts
\* --------------------------------------------------------------------------

\* the text a token sequence spells
RECURSIVE Join(_)
Join(s) == IF s = <<>> THEN "" ELSE Head(s) \o Join(Tail(s))

\* str::ends_with on token sequences
ends_with(s, suffix) ==
    Len(suffix) <= Len(s) /\ SubSeq(s, Len(s) - Len(suffix) + 1, Len(s)) = suffix

\* str::to_uppercase of the trigger texts the model uses
to_uppercase(t) ==
    CASE t = "before update" -> "BEFORE UPDATE"
      [] t = "after insert" -> "AFTER INSERT"
      [] t = "for each row" -> "FOR EACH ROW"
      [] t = "unique" -> "UNIQUE"
      [] t = "desc" -> "DESC"
      [] OTHER -> t

\* "s.t" split at the first '.', a bare "t" resolved to the current schema
\* (Table::deploy_fk, Schema::resolve_templates)
split_ref(ref, schema) ==
    LET i == find(ref, ".")
    IN  IF i = 0 THEN <<schema, Join(ref)>>
        ELSE <<Join(SubSeq(ref, 1, i - 1)), Join(SubSeq(ref, i + 1, Len(ref)))>>

\* --------------------------------------------------------------------------
\* YAML model (column.rs, table.rs, schema.rs)
\* --------------------------------------------------------------------------

\* Column; constraint is flattened: pk = constraint.primaryKey,
\* nullable = constraint.nullable, fk = constraint.foreignKey
Column(name, column_type, pk, nullable, fk, index) ==
    [name |-> name, column_type |-> column_type, default_value |-> None,
     pk |-> pk, nullable |-> nullable, fk |-> fk,
     description |-> "", sql |-> "", index |-> index]

ForeignKey(references) == Some([references |-> references, sql |-> ""])

\* Index::default(): index: true
IndexDefault ==
    [name |-> "+", unique |-> FALSE, concurrently |-> FALSE, using |-> "",
     order |-> "", nulls |-> "", collate |-> "", sql |-> <<>>]

Trig(name, event, when, proc) ==
    [name |-> name, event |-> event, when |-> when, proc |-> proc]

\* a grant entry of the YAML with no grantee; grantees are texts until YGrant::new
YGrantNone ==
    [all |-> <<>>, select |-> <<>>, insert |-> <<>>, update |-> <<>>, delete |-> <<>>,
     truncate |-> <<>>, references |-> <<>>, trigger |-> <<>>,
     with_grant_option |-> FALSE, by |-> ""]

\* Table::default()
TableDefault ==
    [table_name |-> "", description |-> "", transaction |-> "", sql |-> "",
     constraint |-> "", columns |-> <<>>, triggers |-> <<>>, data |-> <<>>,
     owner |-> "", grant |-> <<>>, is_template |-> FALSE, use_templates |-> <<>>]

is_pk(c) == c.pk

is_template(t) == t.is_template

\* the primary-key columns, the last declared first
get_primary_key_columns_reversed(t) ==
    LET idx == SelectIdx(t.columns, {c \in Range(t.columns) : is_pk(c)}, 1)
    IN  [i \in DOMAIN idx |-> t.columns[idx[Len(idx) + 1 - i]].name]

get_primary_key_columns(t) ==
    LET idx == SelectIdx(t.columns, {c \in Range(t.columns) : is_pk(c)}, 1)
    IN  [i \in DOMAIN idx |-> t.columns[idx[i]].name]

\* OrderedHashMap::get on a list of named entries: the index, 0 when absent
RECURSIVE IndexOfName(_, _, _)
IndexOfName(list, name, i) ==
    IF i > Len(list) THEN 0
    ELSE IF list[i].name = name THEN i ELSE IndexOfName(list, name, i + 1)

\* --------------------------------------------------------------------------
\* LiveModel (loader.rs)
\* --------------------------------------------------------------------------

\* Column::column_def; the error case (empty type) is column_def_err
column_def_err(c) == c.column_type = <<>>

column_def(c) ==
    [column_name |-> c.name, column_type |-> c.column_type,
     column_default |-> c.default_value, sql |-> Some(c.sql),
     pk |-> c.pk, nullable |-> c.nullable,
     fk |-> IF IsSome(c.fk) THEN Some(<<c.fk[1].references, c.fk[1].sql>>) ELSE None]

\* PgColumnDfn::def: the column definition text, as the parts it is made of
def(cd, ignore_pk) ==
    [name |-> cd.column_name, type |-> cd.column_type,
     primary_key |-> cd.pk /\ ~ignore_pk,
     not_null |-> ~cd.nullable,
     default |-> IF IsSome(cd.column_default) /\ cd.column_default[1] # ""
                 THEN cd.column_default ELSE None,
     sql |-> IF IsSome(cd.sql) /\ cd.sql[1] # "" THEN cd.sql[1] ELSE ""]

\* PgTable::default()
PgTableDefault ==
    [columns |-> EmptyMap, fks |-> EmptyMap, triggers |-> EmptyMap,
     indexes |-> EmptyMap, grants |-> EmptyMap, primary_key |-> None, owner |-> None]

\* PgTable::pks: Some text only when more than one column carries the pk flag
pks_is_some(ts) == Cardinality({c \in DOMAIN ts.columns : ts.columns[c].pk}) > 1

\* Trig::to_pg_trigger
to_pg_trigger(t) ==
    [trigger_name |-> t.name, event |-> to_uppercase(t.event),
     orientation |-> to_uppercase(t.when), proc |-> t.proc]

\* Trig::matches_pg_trigger
matches_pg_trigger(t, existing) ==
    /\ to_uppercase(t.event) = existing.event
    /\ to_uppercase(t.when) = existing.orientation
    /\ LET self_proc == trim(t.proc)
           existing_proc == trim(existing.proc)
       IN  IF find(self_proc, ".") # 0 THEN self_proc = existing_proc
           ELSE ends_with(existing_proc, self_proc) \/ existing_proc = self_proc

\* Trig::trig_def is Some exactly when proc is not empty
trig_def_is_some(t) == t.proc # <<>>


\* --------------------------------------------------------------------------
\* Statements
\* --------------------------------------------------------------------------

\* append(): a statement pushed through the retry wrapper when is_retry
append(stmt, sql, is_retry) == Append(sql, stmt @@ [wrap |-> is_retry])

\* writeln!(sql, ...): a statement written as it is
writeln(stmt, sql) == Append(sql, stmt @@ [wrap |-> FALSE])

AddColumnSql(schema, table, d) ==
    [k |-> "ADD COLUMN", s |-> schema, t |-> table, c |-> d.name, def |-> d]

AlterTypeSql(schema, table, column, type, using) ==
    [k |-> "ALTER COLUMN TYPE", s |-> schema, t |-> table, c |-> column,
     type |-> type, using |-> using]

OwnerSql(schema, table, owner) ==
    [k |-> "OWNER TO", s |-> schema, t |-> table, owner |-> owner]

CreateTriggerSql(schema, table, dt) ==
    [k |-> "CREATE TRIGGER", s |-> schema, t |-> table, name |-> dt.name,
     event |-> dt.event, when |-> dt.when, proc |-> dt.proc]

DropTriggerSql(schema, table, name) ==
    [k |-> "DROP TRIGGER", s |-> schema, t |-> table, name |-> name]

DropConstraintSql(schema, table, name) ==
    [k |-> "DROP CONSTRAINT", s |-> schema, t |-> table, name |-> name]

AddPrimaryKeySql(schema, table, columns) ==
    [k |-> "ADD PRIMARY KEY", s |-> schema, t |-> table, columns |-> columns]

\* Err(format!(...)): what the message names
Failure(kind, schema, table, object, sql) ==
    Some([kind |-> kind, s |-> schema, t |-> table, object |-> object, sql |-> sql])

\* --------------------------------------------------------------------------
\* Table::deploy, existing table: columns
\* --------------------------------------------------------------------------

\* the change of type is applied whatever with_size_cut is
deploy_type_change_ungated(self, schema, opt, acc, dc, d, type_change, alter_sql) ==
    IF type_change = "NoChange" THEN acc
    ELSE [acc EXCEPT !.sql = append(alter_sql, @, opt.with_ddl_retry),
                     !.ts = [acc.ts EXCEPT !.columns = Put(@, dc.name, d)],
                     !.exec = TRUE]

\* the `match type_change` of an existing column
deploy_type_change(self, schema, opt, acc, dc, d, type_change, alter_sql) ==
    CASE type_change = "Panic" ->
            [acc EXCEPT !.err = Failure("panic", schema, self.table_name, dc.name, <<>>)]
      [] type_change \in {"SizeExtension", "Compatible"}
         \/ (type_change \in {"SizeReduction", "Incompatible"} /\ opt.with_size_cut) ->
            [acc EXCEPT !.sql = append(alter_sql, @, opt.with_ddl_retry),
                        !.ts = [acc.ts EXCEPT !.columns = Put(@, dc.name, d)],
                        !.exec = TRUE]
      [] type_change \in {"SizeReduction", "Incompatible"} /\ ~opt.with_size_cut ->
            IF opt.without_failfast
            THEN [acc EXCEPT !.skipped = Append(@, alter_sql)]
            ELSE [acc EXCEPT !.err =
                    Failure(IF type_change = "SizeReduction" THEN "size_cut"
                            ELSE "incompatible",
                            schema, self.table_name, dc.name, <<alter_sql>>)]
      [] OTHER -> acc

\* an existing column whose lowercased type strings differ
deploy_changed_type(self, schema, opt, acc, dc, d, type_change) ==
    deploy_type_change(self, schema, opt, acc, dc, d, type_change,
                       AlterTypeSql(schema, self.table_name, dc.name, d.column_type,
                                    type_change = "Incompatible"))

\* an existing column
deploy_existing_column(self, schema, opt, acc, dc, d, existing_type, desired_type) ==
    IF existing_type = desired_type THEN acc
    ELSE deploy_changed_type(self, schema, opt, acc, dc, d,
                             analyze_type_change(existing_type, desired_type))

\* one iteration of `for dc in &self.columns.list`; acc carries ts, sql, exec,
\* the skipped log and the early return
deploy_column(self, schema, opt, ignore_pk, acc, dc) ==
    IF column_def_err(dc)
    THEN [acc EXCEPT !.err = Failure("column_def", schema, self.table_name, dc.name, <<>>)]
    ELSE IF dc.name \notin DOMAIN acc.ts.columns
    THEN [acc EXCEPT
            !.sql = append(AddColumnSql(schema, self.table_name, def(column_def(dc), ignore_pk)),
                           @, opt.with_ddl_retry),
            !.ts = [acc.ts EXCEPT !.columns = Put(@, dc.name, column_def(dc))],
            !.exec = TRUE]
    ELSE deploy_existing_column(self, schema, opt, acc, dc, column_def(dc),
                                to_lowercase(acc.ts.columns[dc.name].column_type),
                                to_lowercase(column_def(dc).column_type))

RECURSIVE deploy_columns(_, _, _, _, _, _)
deploy_columns(self, schema, opt, ignore_pk, acc, i) ==
    IF i > Len(self.columns) \/ IsSome(acc.err) THEN acc
    ELSE deploy_columns(self, schema, opt, ignore_pk,
                        deploy_column(self, schema, opt, ignore_pk, acc, self.columns[i]),
                        i + 1)

\* owner branch: the statement is appended; exec and ts.owner stay as they are
deploy_owner(self, schema, opt, acc) ==
    IF IsSome(acc.err) THEN acc
    ELSE IF IsSome(acc.ts.owner) /\ self.owner # "" /\ self.owner # acc.ts.owner[1]
    THEN [acc EXCEPT !.sql = append(OwnerSql(schema, self.table_name, self.owner), @,
                                    opt.with_ddl_retry)]
    ELSE acc

\* one iteration of `for dt in &self.triggers.list`
\* a trigger the table has is left alone, changed or not
deploy_trigger_unchecked(self, schema, opt, acc, dt) ==
    IF dt.name \notin DOMAIN acc.ts.triggers /\ trig_def_is_some(dt)
    THEN [acc EXCEPT !.sql = writeln(CreateTriggerSql(schema, self.table_name, dt), @),
                     !.ts = [acc.ts EXCEPT !.triggers = Put(@, dt.name, to_pg_trigger(dt))],
                     !.exec = TRUE]
    ELSE acc

deploy_trigger(self, schema, opt, acc, dt) ==
    LET ts == acc.ts
        desired_trigger == to_pg_trigger(dt)
        trigger_exists == dt.name \in DOMAIN ts.triggers
        trigger_changed == trigger_exists /\ ~matches_pg_trigger(dt, ts.triggers[dt.name])
        drop_sql == DropTriggerSql(schema, self.table_name, dt.name)
        create_sql == CreateTriggerSql(schema, self.table_name, dt)
        created(sql) == IF trig_def_is_some(dt) THEN writeln(create_sql, sql) ELSE sql
    IN
    IF ~trigger_exists
    THEN IF trig_def_is_some(dt)
         THEN [acc EXCEPT !.sql = writeln(create_sql, @),
                          !.ts = [ts EXCEPT !.triggers = Put(@, dt.name, desired_trigger)],
                          !.exec = TRUE]
         ELSE acc
    ELSE IF trigger_changed
    THEN IF opt.with_trigger_drop
         THEN [acc EXCEPT !.sql = created(writeln(drop_sql, @)),
                          !.ts = [ts EXCEPT !.triggers = Put(@, dt.name, desired_trigger)],
                          !.exec = TRUE]
         ELSE IF opt.without_failfast
         THEN [acc EXCEPT !.skipped = created(writeln(drop_sql, @))]
         ELSE [acc EXCEPT !.err = Failure("trigger", schema, self.table_name, dt.name,
                                          created(<<drop_sql>>))]
    ELSE acc

RECURSIVE deploy_triggers(_, _, _, _, _)
deploy_triggers(self, schema, opt, acc, i) ==
    IF opt.exclude_triggers \/ i > Len(self.triggers) \/ IsSome(acc.err) THEN acc
    ELSE deploy_triggers(self, schema, opt,
                         deploy_trigger(self, schema, opt, acc, self.triggers[i]), i + 1)


\* primary key branch of the existing-table path
deploy_primary_key(self, schema, opt, acc) ==
    LET ts == acc.ts
        desired_pk == get_primary_key_columns(self)
        existing_pk == IF IsSome(ts.primary_key) THEN ts.primary_key[1].columns ELSE <<>>
        pk_constraint_name == IF IsSome(ts.primary_key) THEN ts.primary_key[1].constraint_name
                              ELSE self.table_name \o "_pkey"
        drop_pk_sql == IF IsSome(ts.primary_key)
                       THEN <<DropConstraintSql(schema, self.table_name, pk_constraint_name)>>
                       ELSE <<>>
        add_pk_sql == IF desired_pk # <<>>
                      THEN <<AddPrimaryKeySql(schema, self.table_name, desired_pk)>>
                      ELSE <<>>
        both == drop_pk_sql \o add_pk_sql
        wrapped == [i \in DOMAIN both |-> both[i] @@ [wrap |-> opt.with_ddl_retry]]
    IN
    IF IsSome(acc.err) \/ desired_pk = existing_pk THEN acc
    ELSE IF opt.with_index_drop
    THEN [acc EXCEPT
            !.sql = @ \o wrapped,
            !.ts = [ts EXCEPT !.primary_key =
                      IF desired_pk = <<>> THEN None
                      ELSE Some([constraint_name |-> self.table_name \o "_pkey",
                                 columns |-> desired_pk])],
            !.exec = TRUE]
    ELSE IF opt.without_failfast
    THEN [acc EXCEPT !.skipped = @ \o both]
    ELSE [acc EXCEPT !.err = Failure("primary_key", schema, self.table_name,
                                     self.table_name, both)]

\* Table::deploy, `Some(ts)` arm: columns, owner, triggers, primary key
deploy_existing(self, schema, opt, ts) ==
    deploy_primary_key(self, schema, opt,
        deploy_triggers(self, schema, opt,
            deploy_owner(self, schema, opt,
                deploy_columns(self, schema, opt, pks_is_some(ts),
                               [ts |-> ts, sql |-> <<>>, comments |-> <<>>, skipped |-> <<>>,
                                exec |-> FALSE, err |-> None], 1)), 1))

\* --------------------------------------------------------------------------
\* Table::deploy, table absent from the LiveModel: CREATE TABLE
\* --------------------------------------------------------------------------

CreateSchemaSql(schema, owner) ==
    [k |-> "CREATE SCHEMA", s |-> schema, t |-> "", authorization |-> owner]

CreateTableSql(schema, table, columns, primary_key, constraint, suffix) ==
    [k |-> "CREATE TABLE", s |-> schema, t |-> table, columns |-> columns,
     primary_key |-> primary_key, constraint |-> constraint, suffix |-> suffix]

CommentColumnSql(schema, table, column, text) ==
    [k |-> "COMMENT ON COLUMN", s |-> schema, t |-> table, c |-> column, text |-> text]

CommentTableSql(schema, table, text) ==
    [k |-> "COMMENT ON TABLE", s |-> schema, t |-> table, text |-> text]

\* Table::comments over the columns, in order
RECURSIVE column_comments(_, _, _)
column_comments(self, schema, i) ==
    IF i > Len(self.columns) THEN <<>>
    ELSE LET dc == self.columns[i]
         IN  (IF dc.description # ""
              THEN <<CommentColumnSql(schema, self.table_name, dc.name, dc.description)
                       @@ [wrap |-> FALSE]>>
              ELSE <<>>) \o column_comments(self, schema, i + 1)

\* the triggers of a created table
RECURSIVE create_triggers(_, _, _, _)
create_triggers(self, schema, acc, i) ==
    IF i > Len(self.triggers) THEN acc
    ELSE LET dt == self.triggers[i]
         IN  create_triggers(self, schema,
                IF trig_def_is_some(dt)
                THEN [acc EXCEPT
                        !.sql = writeln(CreateTriggerSql(schema, self.table_name, dt), @),
                        !.ts = [acc.ts EXCEPT !.triggers = Put(@, dt.name, to_pg_trigger(dt))]]
                ELSE acc, i + 1)

\* Table::deploy, arms SchemaAndTable and TableOnly
deploy_create(self, schema, opt, schema_and_table) ==
    LET pk_columns == get_primary_key_columns(self)
        has_composite_pk == Len(pk_columns) > 1
        bad == \E i \in DOMAIN self.columns : column_def_err(self.columns[i])
        names == {self.columns[i].name : i \in DOMAIN self.columns}
        st == [PgTableDefault EXCEPT
                 !.primary_key = IF pk_columns = <<>> THEN None
                                 ELSE Some([constraint_name |-> self.table_name \o "_pkey",
                                            columns |-> pk_columns]),
                 !.owner = IF self.owner # "" THEN Some(self.owner) ELSE None,
                 !.columns = [n \in names |->
                                column_def(self.columns[IndexOfName(self.columns, n, 1)])]]
        columns == [i \in DOMAIN self.columns |->
                      def(st.columns[self.columns[i].name], has_composite_pk)]
        create_schema == IF schema_and_table /\ schema # "public"
                         THEN writeln(CreateSchemaSql(schema, self.owner), <<>>)
                         ELSE <<>>
        csql == CreateTableSql(schema, self.table_name, columns,
                               IF has_composite_pk THEN pk_columns ELSE <<>>,
                               self.constraint, self.sql)
        sql1 == writeln(csql, create_schema)
        sql2 == IF self.owner # ""
                THEN append(OwnerSql(schema, self.table_name, self.owner), sql1,
                            opt.with_ddl_retry)
                ELSE sql1
        acc0 == [ts |-> st, sql |-> sql2, comments |-> column_comments(self, schema, 1),
                 skipped |-> <<>>, exec |-> TRUE, err |-> None]
    IN
    IF bad
    THEN [ts |-> PgTableDefault, sql |-> <<>>, comments |-> <<>>, skipped |-> <<>>,
          exec |-> FALSE,
          err |-> Failure("column_def", schema, self.table_name, self.table_name, <<>>)]
    ELSE IF opt.exclude_triggers THEN acc0
    ELSE create_triggers(self, schema, acc0, 1)


\* --------------------------------------------------------------------------
\* IndexBuilder (index.rs)
\* --------------------------------------------------------------------------

\* IndexBuilder::new: index_groups, index name -> DesiredIndex
RECURSIVE index_groups(_, _, _)
index_groups(columns, groups, i) ==
    IF i > Len(columns) THEN groups
    ELSE LET col == columns[i]
             idx == col.index[1]
             col_info == [column_name |-> col.name, order |-> idx.order,
                          nulls |-> idx.nulls, collate |-> idx.collate]
         IN  IF ~IsSome(col.index) \/ idx.name = "" THEN index_groups(columns, groups, i + 1)
             ELSE IF idx.name \in DOMAIN groups
             THEN index_groups(columns,
                    [groups EXCEPT ![idx.name].columns = Append(@, col_info)], i + 1)
             ELSE index_groups(columns,
                    Put(groups, idx.name,
                        [name |-> idx.name, columns |-> <<col_info>>,
                         is_unique |-> idx.unique
                                       \/ \E j \in DOMAIN idx.sql : to_uppercase(idx.sql[j]) = "UNIQUE",
                         concurrently |-> idx.concurrently, using |-> idx.using]), i + 1)

\* col_names.join("_")
RECURSIVE JoinNames(_, _)
JoinNames(names, sep) ==
    IF names = <<>> THEN ""
    ELSE IF Len(names) = 1 THEN names[1]
    ELSE names[1] \o sep \o JoinNames(Tail(names), sep)

actual_index_name(idx_name, desired, table_name) ==
    IF idx_name = "+" \/ idx_name = ""
    THEN "idx_" \o table_name \o "_"
         \o JoinNames([i \in DOMAIN desired.columns |-> desired.columns[i].column_name], "_")
    ELSE idx_name

\* the PgIndexColumn update_dbc stores for a desired column
pg_index_column(c) ==
    LET order == IF c.order = "" THEN "ASC" ELSE c.order
        default_nulls == IF order = "DESC" THEN "FIRST" ELSE "LAST"
    IN  [column_name |-> c.column_name, order |-> order,
         nulls |-> IF c.nulls = "" THEN default_nulls ELSE c.nulls,
         collation |-> c.collate]

\* the columns are compared by name only
index_matches_by_name(desired, existing) ==
    /\ desired.is_unique = existing.is_unique
    /\ (IF desired.using = "" THEN "btree" ELSE desired.using) = existing.index_method
    /\ Len(desired.columns) = Len(existing.columns)
    /\ \A i \in DOMAIN desired.columns :
          desired.columns[i].column_name = existing.columns[i].column_name

\* IndexBuilder::index_matches
index_matches(desired, existing) ==
    /\ desired.is_unique = existing.is_unique
    /\ (IF desired.using = "" THEN "btree" ELSE desired.using) = existing.index_method
    /\ Len(desired.columns) = Len(existing.columns)
    /\ \A i \in DOMAIN desired.columns : pg_index_column(desired.columns[i]) = existing.columns[i]

\* IndexBuilder::build_create_index_sql
build_create_index_sql(schema, table_name, index_name, desired) ==
    [k |-> "CREATE INDEX", s |-> schema, t |-> table_name, name |-> index_name,
     unique |-> desired.is_unique, concurrently |-> desired.concurrently,
     using |-> desired.using, columns |-> desired.columns, wrap |-> FALSE]

DropIndexSql(schema, table_name, index_name) ==
    [k |-> "DROP INDEX", s |-> schema, t |-> table_name, name |-> index_name, wrap |-> FALSE]

\* IndexBuilder::update_dbc
update_dbc(schema, table_name, index_name, desired, dbc) ==
    IF schema \in DOMAIN dbc /\ table_name \in DOMAIN dbc[schema]
    THEN [dbc EXCEPT ![schema][table_name].indexes =
            Put(@, index_name,
                [index_name |-> index_name,
                 columns |-> [i \in DOMAIN desired.columns |-> pg_index_column(desired.columns[i])],
                 is_unique |-> desired.is_unique,
                 index_method |-> IF desired.using = "" THEN "btree" ELSE desired.using])]
    ELSE dbc

\* one iteration of `for (idx_name, desired) in &self.index_groups`
index_step(schema, table_name, opt, existing_indexes, desired, acc) ==
    LET name == actual_index_name(desired.name, desired, table_name)
        drop_sql == DropIndexSql(schema, table_name, name)
        create_idx == build_create_index_sql(schema, table_name, name, desired)
        exists == name \in DOMAIN existing_indexes
        created(a) == [a EXCEPT !.sql = Append(@, create_idx),
                                !.dbc = update_dbc(schema, table_name, name, desired, @)]
    IN
    IF exists /\ index_matches(desired, existing_indexes[name]) THEN acc
    ELSE IF ~exists THEN created(acc)
    ELSE IF opt.with_index_drop THEN created([acc EXCEPT !.sql = Append(@, drop_sql)])
    ELSE IF opt.without_failfast
    THEN created([acc EXCEPT !.skipped = @ \o <<drop_sql, create_idx>>])
    ELSE [acc EXCEPT !.err = Failure("index", schema, table_name, name,
                                     <<drop_sql, create_idx>>)]

RECURSIVE index_steps(_, _, _, _, _, _, _, _)
index_steps(schema, table_name, opt, existing_indexes, groups, order, acc, i) ==
    IF i > Len(order) \/ IsSome(acc.err) THEN acc
    ELSE index_steps(schema, table_name, opt, existing_indexes, groups, order,
                     index_step(schema, table_name, opt, existing_indexes,
                                groups[order[i]], acc), i + 1)

\* IndexBuilder::generate_sql; order is the HashMap's iteration order of index_groups
index_generate_sql(columns, schema, table_name, dbc, opt, order) ==
    LET existing_indexes == IF schema \in DOMAIN dbc /\ table_name \in DOMAIN dbc[schema]
                            THEN dbc[schema][table_name].indexes ELSE EmptyMap
    IN  index_steps(schema, table_name, opt, existing_indexes,
                    index_groups(columns, EmptyMap, 1), order,
                    [sql |-> <<>>, skipped |-> <<>>, dbc |-> dbc, err |-> None], 1)


\* --------------------------------------------------------------------------
\* GrantBuilder (grant.rs)
\* --------------------------------------------------------------------------

AllPrivileges == {"SELECT", "INSERT", "UPDATE", "DELETE", "TRUNCATE", "REFERENCES", "TRIGGER"}

\* the (privilege, grantee) pairs one YGrant names
grant_pairs(yg) ==
    {<<"all", yg.all>>, <<"SELECT", yg.select>>, <<"INSERT", yg.insert>>,
     <<"UPDATE", yg.update>>, <<"DELETE", yg.delete>>, <<"TRUNCATE", yg.truncate>>,
     <<"REFERENCES", yg.references>>, <<"TRIGGER", yg.trigger>>}

\* the all field is taken as one more privilege
desired_grants_unexpanded(grants) ==
    LET grantees == {p[2] : p \in UNION {grant_pairs(grants[i]) : i \in DOMAIN grants}} \ {""}
    IN  [g \in grantees |->
            {p[1] : p \in {q \in UNION {grant_pairs(grants[i]) : i \in DOMAIN grants} : q[2] = g}}]

\* desired_grants: grantee -> set of privileges
desired_grants(grants) ==
    LET grantees == {p[2] : p \in UNION {grant_pairs(grants[i]) : i \in DOMAIN grants}} \ {""}
    IN  [g \in grantees |->
            UNION {IF p[1] = "all" THEN AllPrivileges ELSE {p[1]} :
                   p \in {q \in UNION {grant_pairs(grants[i]) : i \in DOMAIN grants} : q[2] = g}}]

\* grant_options.get(grantee).unwrap_or(&false)
grant_option(grants, grantee) ==
    \E i \in DOMAIN grants :
        grants[i].with_grant_option /\ \E p \in grant_pairs(grants[i]) : p[2] = grantee

RevokeSql(schema, table, privileges, grantee) ==
    [k |-> "REVOKE", s |-> schema, t |-> table, privileges |-> privileges,
     grantee |-> grantee, wrap |-> FALSE]

GrantSql(schema, table, privileges, grantee, with_grant) ==
    [k |-> "GRANT", s |-> schema, t |-> table, privileges |-> privileges,
     grantee |-> grantee, with_grant |-> with_grant, wrap |-> FALSE]

\* one iteration of `for (grantee, desired_privs) in &desired_grants`
grant_step(grants, schema, table_name, opt, existing_grants, grantee, desired_privs, acc) ==
    LET exists == grantee \in DOMAIN existing_grants
        privs_to_grant == IF exists THEN desired_privs \ existing_grants[grantee].privileges
                          ELSE desired_privs
        privs_to_revoke == IF exists THEN existing_grants[grantee].privileges \ desired_privs
                           ELSE {}
        revoke_stmt == RevokeSql(schema, table_name, privs_to_revoke, grantee)
        grant_stmt == GrantSql(schema, table_name, privs_to_grant, grantee,
                               grant_option(grants, grantee))
        acc1 == IF privs_to_revoke = {} THEN acc
                ELSE IF opt.with_revoke THEN [acc EXCEPT !.sql = Append(@, revoke_stmt)]
                ELSE IF opt.without_failfast
                THEN [acc EXCEPT !.skipped = Append(@, revoke_stmt)]
                ELSE [acc EXCEPT !.err = Failure("revoke", schema, table_name, grantee,
                                                 <<revoke_stmt>>)]
        acc2 == IF privs_to_grant = {} THEN acc1
                ELSE [acc1 EXCEPT !.sql = Append(@, grant_stmt)]
    IN
    IF IsSome(acc1.err) THEN acc1
    ELSE IF (opt.with_revoke \/ privs_to_revoke = {})
            /\ schema \in DOMAIN acc.dbc /\ table_name \in DOMAIN acc.dbc[schema]
    THEN [acc2 EXCEPT !.dbc[schema][table_name].grants =
            Put(@, grantee, [grantee |-> grantee, privileges |-> desired_privs,
                             with_grant_option |-> grant_option(grants, grantee)])]
    ELSE acc2

RECURSIVE grant_steps(_, _, _, _, _, _, _, _, _)
grant_steps(grants, schema, table_name, opt, existing_grants, desired, order, acc, i) ==
    IF i > Len(order) \/ IsSome(acc.err) THEN acc
    ELSE grant_steps(grants, schema, table_name, opt, existing_grants, desired, order,
                     grant_step(grants, schema, table_name, opt, existing_grants,
                                order[i], desired[order[i]], acc), i + 1)

\* one iteration of `for (grantee, existing) in &existing_grants`
revoke_step(schema, table_name, opt, desired, grantee, existing, acc) ==
    LET revoke_stmt == RevokeSql(schema, table_name, existing.privileges, grantee)
    IN
    IF grantee \in DOMAIN desired \/ existing.privileges = {} THEN acc
    ELSE IF opt.with_revoke
    THEN [acc EXCEPT !.sql = Append(@, revoke_stmt),
                     !.dbc = IF schema \in DOMAIN @ /\ table_name \in DOMAIN @[schema]
                             THEN [@ EXCEPT ![schema][table_name].grants = Remove(@, grantee)]
                             ELSE @]
    ELSE IF opt.without_failfast THEN [acc EXCEPT !.skipped = Append(@, revoke_stmt)]
    ELSE [acc EXCEPT !.err = Failure("revoke", schema, table_name, grantee, <<revoke_stmt>>)]

RECURSIVE revoke_steps(_, _, _, _, _, _, _, _)
revoke_steps(schema, table_name, opt, existing_grants, desired, order, acc, i) ==
    IF i > Len(order) \/ IsSome(acc.err) THEN acc
    ELSE revoke_steps(schema, table_name, opt, existing_grants, desired, order,
                      revoke_step(schema, table_name, opt, desired, order[i],
                                  existing_grants[order[i]], acc), i + 1)

\* the grants the LiveModel holds for a table when generate_sql starts
existing_grants_of(dbc, schema, table_name) ==
    IF schema \in DOMAIN dbc /\ table_name \in DOMAIN dbc[schema]
    THEN dbc[schema][table_name].grants ELSE EmptyMap

\* GrantBuilder::generate_sql; order1 and order2 are the iteration orders of
\* desired_grants and of existing_grants
grant_generate_sql(grants, table_name, schema, dbc, opt, order1, order2) ==
    LET existing_grants == existing_grants_of(dbc, schema, table_name)
        desired == desired_grants(grants)
        acc1 == grant_steps(grants, schema, table_name, opt, existing_grants, desired, order1,
                            [sql |-> <<>>, skipped |-> <<>>, dbc |-> dbc, err |-> None], 1)
    IN  revoke_steps(schema, table_name, opt, existing_grants, desired, order2, acc1, 1)


\* --------------------------------------------------------------------------
\* Seed rows and the whole of Table::deploy's planning
\* --------------------------------------------------------------------------

\* Table::insert; columns.list.get(i).unwrap() panics on a row longer than the columns
insert_panics(self, row) == Len(row) > Len(self.columns)

insert(self, row, schema) ==
    LET used == SubSeq(self.columns, 1, Len(row))
        pk_idx == SelectIdx(used, {c \in Range(used) : is_pk(c)}, 1)
    IN  [k |-> "INSERT", s |-> schema, t |-> self.table_name,
         names |-> [i \in DOMAIN used |-> used[i].name], vals |-> row,
         pks |-> [i \in DOMAIN pk_idx |-> used[pk_idx[i]].name], wrap |-> FALSE]

\* the iteration orders Table::deploy depends on: index_groups, desired_grants and
\* existing_grants are HashMaps
deploy_orders(self, schema, dbc) ==
    [i : Orders(DOMAIN index_groups(self.columns, EmptyMap, 1)),
     g : Orders(DOMAIN desired_grants(self.grant)),
     r : Orders(DOMAIN existing_grants_of(dbc, schema, self.table_name))]

\* the early return of Table::deploy: nothing is executed or handed to the sink
deploy_failed(err, dbc, skipped) ==
    [err |-> err, dbc |-> dbc, batches |-> <<>>, exec |-> FALSE, skipped |-> skipped]

\* Table::deploy after GrantBuilder::generate_sql: the seed rows, exec, the batches
deploy_data(self, schema, a, ix, gr) ==
    IF IsSome(gr.err) THEN deploy_failed(gr.err, gr.dbc, a.skipped \o ix.skipped \o gr.skipped)
    ELSE IF \E j \in DOMAIN self.data : insert_panics(self, self.data[j])
    THEN deploy_failed(Failure("panic", schema, self.table_name, self.table_name, <<>>),
                       gr.dbc, a.skipped \o ix.skipped \o gr.skipped)
    ELSE [err |-> None, dbc |-> gr.dbc,
          batches |-> <<a.sql, a.comments, ix.sql, gr.sql,
                        [j \in DOMAIN self.data |-> insert(self, self.data[j], schema)]>>,
          exec |-> a.exec \/ ix.sql # <<>> \/ gr.sql # <<>>,
          skipped |-> a.skipped \o ix.skipped \o gr.skipped]

\* Table::deploy after IndexBuilder::generate_sql
deploy_grants(self, schema, opt, ord, a, ix) ==
    IF IsSome(ix.err) THEN deploy_failed(ix.err, ix.dbc, a.skipped \o ix.skipped)
    ELSE deploy_data(self, schema, a, ix,
                     grant_generate_sql(self.grant, self.table_name, schema, ix.dbc, opt,
                                        ord.g, ord.r))

\* Table::deploy after the table itself is planned (a, over the LiveModel dbc1): the
\* table comment, then the indexes
deploy_indexes(self, schema, opt, ord, a, dbc1) ==
    IF IsSome(a.err) THEN deploy_failed(a.err, dbc1, a.skipped)
    ELSE deploy_grants(self, schema, opt, ord,
            IF a.exec /\ self.description # ""
            THEN [a EXCEPT !.comments =
                    Append(@, CommentTableSql(schema, self.table_name, self.description)
                                @@ [wrap |-> FALSE])]
            ELSE a,
            index_generate_sql(self.columns, schema, self.table_name, dbc1, opt, ord.i))

\* the LiveModel after the table part: a created table is inserted unless the create
\* path returned early, an existing one was changed in place
deploy_mirror(self, schema, dbc0, created, a) ==
    IF created /\ IsSome(a.err) THEN dbc0
    ELSE [dbc0 EXCEPT ![schema] = Put(@, self.table_name, a.ts)]

\* Table::deploy once do_create is known
deploy_table(self, schema, dbc0, opt, ord, created, a) ==
    deploy_indexes(self, schema, opt, ord, a, deploy_mirror(self, schema, dbc0, created, a))

\* Table::deploy with the schema entry of the LiveModel replaced by an empty one
\* whenever the table is to be created
deploy_plan_fresh_schema(self, schema, dbc, opt, ord) ==
    IF schema \notin DOMAIN dbc \/ self.table_name \notin DOMAIN dbc[schema]
    THEN deploy_table(self, schema, Put(dbc, schema, EmptyMap), opt, ord, TRUE,
                      deploy_create(self, schema, opt, schema \notin DOMAIN dbc))
    ELSE deploy_table(self, schema, dbc, opt, ord, FALSE,
                      deploy_existing(self, schema, opt, dbc[schema][self.table_name]))

\* Table::deploy up to `match dry_run`: the five batches, exec, the LiveModel as the
\* call leaves it, and the early return if one is taken
deploy_plan(self, schema, dbc, opt, ord) ==
    IF schema \notin DOMAIN dbc
    THEN deploy_table(self, schema, Put(dbc, schema, EmptyMap), opt, ord, TRUE,
                      deploy_create(self, schema, opt, TRUE))
    ELSE IF self.table_name \notin DOMAIN dbc[schema]
    THEN deploy_table(self, schema, dbc, opt, ord, TRUE,
                      deploy_create(self, schema, opt, FALSE))
    ELSE deploy_table(self, schema, dbc, opt, ord, FALSE,
                      deploy_existing(self, schema, opt, dbc[schema][self.table_name]))

\* --------------------------------------------------------------------------
\* Table::deploy_fk
\* --------------------------------------------------------------------------

\* pks(): the primary key columns the YAML model gives for schema.table
pks(schema, table, sks) ==
    LET si == IndexOfName([i \in DOMAIN sks |-> [name |-> sks[i].schema_name]], schema, 1)
        ti == IF si = 0 THEN 0
              ELSE IndexOfName([i \in DOMAIN sks[si].tables |->
                                  [name |-> sks[si].tables[i].table_name]], table, 1)
    IN  IF si = 0 \/ ti = 0 THEN {}
        ELSE {c.name : c \in {cc \in Range(sks[si].tables[ti].columns) : is_pk(cc)}}

\* the loop over the columns: fk_list, keyed by "schema.table" of the target
RECURSIVE fk_list(_, _, _, _, _, _)
fk_list(self, schemas, dbc, schema, list, i) ==
    IF i > Len(self.columns) THEN list
    ELSE LET dc == self.columns[i]
             target == split_ref(dc.fk[1].references, schema)
             fk_columns == pks(target[1], target[2], schemas)
             key == target[1] \o "." \o target[2]
         IN  IF ~IsSome(dc.fk) \/ dc.name \in DOMAIN dbc[schema][self.table_name].fks
                \/ fk_columns = {}
             THEN fk_list(self, schemas, dbc, schema, list, i + 1)
             ELSE fk_list(self, schemas, dbc, schema,
                          Put(list, key, [column |-> fk_columns, name |-> dc.name,
                                          schema |-> target[1], table |-> target[2],
                                          sql |-> dc.fk[1].sql]), i + 1)

AddForeignKeySql(schema, table, ff, is_retry) ==
    [k |-> "ADD FOREIGN KEY", s |-> schema, t |-> table,
     name |-> "fk_" \o schema \o "_" \o table \o "_" \o ff.table \o "_" \o ff.name,
     c |-> ff.name, ref_s |-> ff.schema, ref_t |-> ff.table, ref_columns |-> ff.column,
     sql |-> ff.sql, wrap |-> is_retry]

\* the loop `for ff in fk_list.values()`
RECURSIVE fk_steps(_, _, _, _, _, _, _)
fk_steps(self, schema, is_retry, list, order, acc, i) ==
    IF i > Len(order) THEN acc
    ELSE LET ff == list[order[i]]
         IN  fk_steps(self, schema, is_retry, list, order,
                [sql |-> Append(acc.sql, AddForeignKeySql(schema, self.table_name, ff, is_retry)),
                 dbc |-> [acc.dbc EXCEPT ![schema][self.table_name].fks = Put(@, ff.name, ff)]],
                i + 1)

\* the keys of fk_list
fk_keys(self, schemas, dbc, schema) ==
    IF schema \in DOMAIN dbc /\ self.table_name \in DOMAIN dbc[schema]
    THEN DOMAIN fk_list(self, schemas, dbc, schema, EmptyMap, 1)
    ELSE {}

\* Table::deploy_fk after the loop over the columns
deploy_fk_list(self, schema, is_retry, dbc, list, order) ==
    [sql |-> fk_steps(self, schema, is_retry, list, order, [sql |-> <<>>, dbc |-> dbc], 1).sql,
     dbc |-> fk_steps(self, schema, is_retry, list, order, [sql |-> <<>>, dbc |-> dbc], 1).dbc,
     exec |-> DOMAIN list # {}]

\* Table::deploy_fk up to `match dry_run`; order is fk_list's iteration order
deploy_fk_plan(self, schemas, dbc, schema, is_retry, order) ==
    deploy_fk_list(self, schema, is_retry, dbc,
                   IF schema \in DOMAIN dbc /\ self.table_name \in DOMAIN dbc[schema]
                   THEN fk_list(self, schemas, dbc, schema, EmptyMap, 1)
                   ELSE EmptyMap, order)

\* --------------------------------------------------------------------------
\* parse_yaml_schema (lib.rs), Schema::append, Schema::resolve_templates
\* (schema.rs), Table::new, Table::merge_from (table.rs)
\* --------------------------------------------------------------------------

\* utils::safe_sql_name: the input up to the first space, dot, semicolon, newline or tab
safe_sql_name(input) ==
    LET stops == {i \in DOMAIN input : input[i] \in {" ", ".", ";", "\n", "\t"}}
    IN  IF stops = {} THEN input
        ELSE SubSeq(input, 1, (CHOOSE i \in stops : \A j \in stops : i <= j) - 1)

\* utils::as_esc: the text before the first "--", trimmed; the whole text without one
as_esc(val) ==
    IF find(val, "--") = 0 THEN val ELSE trim(SubSeq(val, 1, find(val, "--") - 1))

\* a YAML name read through as_str_esc and safe_sql_name
safe_name(text) == Join(safe_sql_name(as_esc(text)))

\* Column::new: the YAML name is read through safe_sql_name
Column_new(c) == [c EXCEPT !.name = safe_name(@)]

\* Trig::new: the YAML name is read through safe_sql_name
Trig_new(t) == [t EXCEPT !.name = safe_name(@)]

\* YGrant::new: every grantee is read through safe_sql_name
YGrant_new(g) ==
    [g EXCEPT !.all = safe_name(@), !.select = safe_name(@),
              !.insert = safe_name(@), !.update = safe_name(@),
              !.delete = safe_name(@), !.truncate = safe_name(@),
              !.references = safe_name(@), !.trigger = safe_name(@)]

\* append fails on an empty name only
HasAppendErrorOnEmpty(names) == \E i \in DOMAIN names : names[i] = ""

\* OrderedHashMap::append fails on an empty or repeated name
HasAppendError(names) ==
    \E i \in DOMAIN names : names[i] = "" \/ \E j \in 1..(i - 1) : names[j] = names[i]

\* Table::new: Err on a column or trigger the OrderedHashMap refuses; triggers with
\* an empty name in the YAML are left out
Table_new_err(t) ==
    LET cols == [i \in DOMAIN t.columns |-> Column_new(t.columns[i]).name]
        trig_idx == SelectIdx(t.triggers, {x \in Range(t.triggers) : x.name # <<>>}, 1)
    IN  \/ HasAppendError(cols)
        \/ HasAppendError([i \in DOMAIN trig_idx |-> Trig_new(t.triggers[trig_idx[i]]).name])

\* Table::new; table_name is the YAML tableName as it is
Table_new(t) ==
    LET trig_idx == SelectIdx(t.triggers, {x \in Range(t.triggers) : x.name # <<>>}, 1)
    IN  [t EXCEPT !.table_name = Join(@),
                  !.columns = [i \in DOMAIN @ |-> Column_new(@[i])],
                  !.triggers = [i \in DOMAIN trig_idx |-> Trig_new(t.triggers[trig_idx[i]])],
                  !.grant = [i \in DOMAIN @ |-> YGrant_new(@[i])]]

\* Schema::append: the tables of one YAML entry, appended to the schema's list
RECURSIVE Schema_append(_, _, _)
Schema_append(acc, tbls, i) ==
    IF i > Len(tbls) \/ acc.err # "" THEN acc
    ELSE LET t == tbls[i]
             known == {acc.tables[j].table_name : j \in DOMAIN acc.tables}
         IN  Schema_append(
                IF Join(t.table_name) \in known THEN [acc EXCEPT !.err = "duplicate table"]
                ELSE IF Table_new_err(t) THEN [acc EXCEPT !.err = "table"]
                ELSE IF t.table_name = <<>> THEN acc
                ELSE [acc EXCEPT !.tables = Append(@, Table_new(t))],
                tbls, i + 1)

\* the first loop of parse_yaml_schema: entries with one schemaName are one Schema
RECURSIVE parse_entries(_, _, _)
parse_entries(acc, entries, i) ==
    IF i > Len(entries) \/ acc.err # "" THEN acc
    ELSE LET e == entries[i]
             si == IndexOfName([j \in DOMAIN acc.list |-> [name |-> acc.list[j].schema_name]],
                               Join(e.schema_name), 1)
             old == IF si = 0 THEN <<>> ELSE acc.list[si].tables
             r == Schema_append([err |-> "", tables |-> old], e.tables, 1)
             ss == [schema_name |-> Join(e.schema_name), tables |-> r.tables]
         IN  parse_entries(
                IF r.err # "" THEN [acc EXCEPT !.err = r.err]
                ELSE IF si = 0 THEN [acc EXCEPT !.list = Append(@, ss)]
                ELSE [acc EXCEPT !.list[si] = ss],
                entries, i + 1)

\* the columns or triggers of merge_from: the template's first, own entries replacing
\* or following them
RECURSIVE merge_named(_, _, _)
merge_named(merged, own, i) ==
    IF i > Len(own) THEN merged
    ELSE LET at == IndexOfName(merged, own[i].name, 1)
         IN  merge_named(IF at # 0 THEN [merged EXCEPT ![at] = own[i]]
                         ELSE Append(merged, own[i]), own, i + 1)

\* Table::merge_from
merge_from(self, template) ==
    [self EXCEPT
       !.columns = merge_named(template.columns, self.columns, 1),
       !.triggers = merge_named(template.triggers, self.triggers, 1),
       !.grant = template.grant \o self.grant,
       !.owner = IF @ = "" /\ template.owner # "" THEN template.owner ELSE @,
       !.description = IF @ = "" /\ template.description # "" THEN template.description ELSE @,
       !.sql = IF @ = "" /\ template.sql # "" THEN template.sql ELSE @,
       !.constraint = IF @ = "" /\ template.constraint # "" THEN template.constraint ELSE @]

\* the table a name denotes in a list of tables, as a list of zero or one table
get_table(tables, name) ==
    LET at == IndexOfName([j \in DOMAIN tables |-> [name |-> tables[j].table_name]], name, 1)
    IN  IF at = 0 THEN None ELSE Some(tables[at])

\* the templates one table names, looked up in order; err when one is missing or
\* is not a template
RECURSIVE templates_to_merge(_, _, _, _, _)
templates_to_merge(self, all_schemas, use_templates, acc, i) ==
    IF i > Len(use_templates) \/ acc.err # "" THEN acc
    ELSE LET ref == split_ref(use_templates[i], self.schema_name)
             other == IndexOfName([j \in DOMAIN all_schemas |->
                                     [name |-> all_schemas[j].schema_name]], ref[1], 1)
             template == IF ref[1] = self.schema_name THEN get_table(self.tables, ref[2])
                         ELSE IF other = 0 THEN None
                         ELSE get_table(all_schemas[other].tables, ref[2])
         IN  templates_to_merge(self, all_schemas, use_templates,
                IF ~IsSome(template) THEN [acc EXCEPT !.err = "template does not exist"]
                ELSE IF ~is_template(template[1]) THEN [acc EXCEPT !.err = "not a template"]
                ELSE [acc EXCEPT !.list = Append(@, template[1])], i + 1)

RECURSIVE merge_all(_, _, _)
merge_all(table, templates, i) ==
    IF i > Len(templates) THEN table
    ELSE merge_all(merge_from(table, templates[i]), templates, i + 1)

\* Schema::resolve_templates, one table: m holds the templates it names
resolve_table(acc, i, m) ==
    IF acc.schema.tables[i].use_templates = <<>> THEN acc
    ELSE IF m.err # "" THEN [acc EXCEPT !.err = m.err]
    ELSE [acc EXCEPT !.schema.tables[i] = merge_all(@, m.list, 1)]

\* Schema::resolve_templates: the tables that use templates, in list order
RECURSIVE resolve_templates(_, _, _)
resolve_templates(acc, all_schemas, i) ==
    IF i > Len(acc.schema.tables) \/ acc.err # "" THEN acc
    ELSE resolve_templates(
            resolve_table(acc, i,
                templates_to_merge(acc.schema, all_schemas,
                                   acc.schema.tables[i].use_templates,
                                   [err |-> "", list |-> <<>>], 1)),
            all_schemas, i + 1)

\* the second loop of parse_yaml_schema, one schema: r is what resolve_templates returned
resolved(acc, i, r) ==
    IF r.err # "" THEN [acc EXCEPT !.err = r.err] ELSE [acc EXCEPT !.list[i] = r.schema]

\* the second loop of parse_yaml_schema, over a snapshot of the schemas
RECURSIVE resolve_all(_, _, _)
resolve_all(acc, snapshot, i) ==
    IF i > Len(acc.list) \/ acc.err # "" THEN acc
    ELSE resolve_all(resolved(acc, i,
                        resolve_templates([err |-> "", schema |-> acc.list[i]], snapshot, 1)),
                     snapshot, i + 1)

\* parse_yaml_schema once the entries are read
parse_resolve(parsed) ==
    IF parsed.err # "" THEN parsed ELSE resolve_all(parsed, parsed.list, 1)

\* parse_yaml_schema: err is "" on Ok
parse_yaml_schema(entries) ==
    parse_resolve(parse_entries([err |-> "", list |-> <<>>], entries, 1))

\* --------------------------------------------------------------------------
\* The database: what batch_execute changes in the catalogs the loader reads
\* --------------------------------------------------------------------------

\* the tableowner pg_tables reports for a table created without OWNER TO
SessionUser == "postgres"

\* the schema an unqualified function name resolves to
SearchPath == "public"

DbTableDefault ==
    [columns |-> EmptyMap, owner |-> SessionUser, triggers |-> EmptyMap, fks |-> EmptyMap,
     primary_key |-> None, indexes |-> EmptyMap, grants |-> EmptyMap]

\* the information_schema.columns row of a column of the given udt_name
pg_column_row(table, d, t, udt, serial) ==
    [udt_name |-> udt,
     character_maximum_length |-> IF udt \in {"varchar", "bpchar"} THEN t.size ELSE None,
     numeric_precision |->
        CASE udt = "numeric" -> t.size
          [] udt = "int2" -> Some(16)
          [] udt = "int4" -> Some(32)
          [] udt = "int8" -> Some(64)
          [] udt = "float4" -> Some(24)
          [] udt = "float8" -> Some(53)
          [] OTHER -> None,
     numeric_scale |->
        CASE udt = "numeric" /\ IsSome(t.size) ->
                IF IsSome(t.scale) THEN t.scale ELSE Some(0)
          [] udt \in {"int2", "int4", "int8"} -> Some(0)
          [] OTHER -> None,
     column_default |->
        IF serial THEN <<"nextval('", table \o "_" \o d.name \o "_seq'::regclass)">>
        ELSE IF IsSome(d.default) THEN d.default ELSE <<>>,
     is_nullable |-> ~(d.not_null \/ d.primary_key \/ serial)]

\* the udt_name PostgreSQL keeps for a type name
udt_name(base) ==
    IF normalize_base(base) = <<"char">> THEN "bpchar" ELSE Join(normalize_base(base))

\* the row of a column whose type text parses to t
pg_column_parsed(table, d, t) ==
    pg_column_row(table, d, t, udt_name(t.base),
                  t.base \in {<<"serial">>, <<"bigserial">>, <<"serial8">>,
                              <<"smallserial">>, <<"serial2">>})

\* the information_schema.columns row of a column defined as d in table
pg_column(table, d) == pg_column_parsed(table, d, parse_type_size(d.type))

\* the effect of one statement on the catalogs
exec_stmt(db, st) ==
    LET has == st.s \in DOMAIN db /\ st.t \in DOMAIN db[st.s]
        pkey(cols) == Some([constraint_name |-> st.t \o "_pkey", columns |-> cols])
    IN
    CASE st.k = "CREATE SCHEMA" ->
            IF st.s \in DOMAIN db THEN db ELSE Put(db, st.s, EmptyMap)
      [] st.k = "CREATE TABLE" /\ st.s \in DOMAIN db /\ ~has ->
            LET names == {st.columns[i].name : i \in DOMAIN st.columns}
                inline == SelectIdx(st.columns,
                                    {d \in Range(st.columns) : d.primary_key}, 1)
                pk == IF st.primary_key # <<>> THEN st.primary_key
                      ELSE [i \in DOMAIN inline |-> st.columns[inline[i]].name]
            IN  [db EXCEPT ![st.s] = Put(@, st.t,
                    [DbTableDefault EXCEPT
                       !.columns = [n \in names |->
                          LET c == pg_column(st.t, st.columns[IndexOfName(st.columns, n, 1)])
                          IN  [c EXCEPT !.is_nullable = @ /\ n \notin Range(pk)]],
                       !.primary_key = IF pk = <<>> THEN None ELSE pkey(pk)])]
      [] st.k = "ADD COLUMN" /\ has ->
            [db EXCEPT ![st.s][st.t].columns = Put(@, st.c, pg_column(st.t, st.def)),
                       ![st.s][st.t].primary_key =
                            IF st.def.primary_key THEN pkey(<<st.c>>) ELSE @]
      [] st.k = "ALTER COLUMN TYPE" /\ has /\ st.c \in DOMAIN db[st.s][st.t].columns ->
            LET old == db[st.s][st.t].columns[st.c]
                new == pg_column(st.t, [name |-> st.c, type |-> st.type, primary_key |-> FALSE,
                                        not_null |-> ~old.is_nullable, default |-> None,
                                        sql |-> ""])
            IN  [db EXCEPT ![st.s][st.t].columns[st.c] =
                    [new EXCEPT !.column_default = old.column_default]]
      [] st.k = "OWNER TO" /\ has -> [db EXCEPT ![st.s][st.t].owner = st.owner]
      [] st.k = "CREATE TRIGGER" /\ has ->
            [db EXCEPT ![st.s][st.t].triggers =
                Put(@, st.name,
                    [event |-> to_uppercase(st.event), orientation |-> to_uppercase(st.when),
                     proc |-> IF find(st.proc, ".") = 0 THEN <<SearchPath, ".">> \o st.proc
                              ELSE st.proc])]
      [] st.k = "DROP TRIGGER" /\ has -> [db EXCEPT ![st.s][st.t].triggers = Remove(@, st.name)]
      [] st.k = "DROP CONSTRAINT" /\ has ->
            IF IsSome(db[st.s][st.t].primary_key)
               /\ db[st.s][st.t].primary_key[1].constraint_name = st.name
            THEN [db EXCEPT ![st.s][st.t].primary_key = None]
            ELSE [db EXCEPT ![st.s][st.t].fks = Remove(@, st.name)]
      [] st.k = "ADD PRIMARY KEY" /\ has ->
            [db EXCEPT ![st.s][st.t].primary_key = pkey(st.columns),
                       ![st.s][st.t].columns =
                            [n \in DOMAIN @ |->
                               IF n \in Range(st.columns) THEN [@[n] EXCEPT !.is_nullable = FALSE]
                               ELSE @[n]]]
      [] st.k = "CREATE INDEX" /\ has ->
            IF st.name \in DOMAIN db[st.s][st.t].indexes THEN db
            ELSE update_dbc(st.s, st.t, st.name,
                            [columns |-> st.columns, is_unique |-> st.unique,
                             using |-> st.using], db)
      [] st.k = "DROP INDEX" /\ has -> [db EXCEPT ![st.s][st.t].indexes = Remove(@, st.name)]
      [] st.k = "GRANT" /\ has ->
            [db EXCEPT ![st.s][st.t].grants =
                Put(@, st.grantee,
                    [grantee |-> st.grantee,
                     privileges |-> st.privileges \cup
                        (IF st.grantee \in DOMAIN @ THEN @[st.grantee].privileges ELSE {}),
                     with_grant_option |-> st.with_grant])]
      [] st.k = "REVOKE" /\ has /\ st.grantee \in DOMAIN db[st.s][st.t].grants ->
            [db EXCEPT ![st.s][st.t].grants[st.grantee].privileges = @ \ st.privileges]
      [] st.k = "ADD FOREIGN KEY" /\ has ->
            [db EXCEPT ![st.s][st.t].fks =
                Put(@, st.name, [column_name |-> st.c, foreign_schema_name |-> st.ref_s,
                                 foreign_table_name |-> st.ref_t,
                                 foreign_column_names |-> st.ref_columns, sql |-> st.sql])]
      [] OTHER -> db

\* batch_execute of one batch that succeeds
RECURSIVE batch_execute(_, _, _)
batch_execute(db, batch, i) ==
    IF i > Len(batch) THEN db ELSE batch_execute(exec_stmt(db, batch[i]), batch, i + 1)


\* --------------------------------------------------------------------------
\* load_info_schema (loader.rs)
\* --------------------------------------------------------------------------

DigitTok(v) ==
    CASE v = 0 -> "0" [] v = 1 -> "1" [] v = 2 -> "2" [] v = 3 -> "3" [] v = 4 -> "4"
      [] v = 5 -> "5" [] v = 6 -> "6" [] v = 7 -> "7" [] v = 8 -> "8" [] OTHER -> "9"

\* format!("{}", n) of a non-negative integer, as digit tokens
RECURSIVE ToDigits(_)
ToDigits(n) == IF n < 10 THEN <<DigitTok(n)>> ELSE Append(ToDigits(n \div 10), DigitTok(n % 10))

\* load_info_cc: the type text built from udt_name, the varchar length and the
\* numeric precision and scale
loaded_type(c) ==
    IF to_lowercase(<<c.udt_name>>) = <<"varchar">>
    THEN IF IsSome(c.character_maximum_length)
         THEN <<c.udt_name, "(">> \o ToDigits(c.character_maximum_length[1]) \o <<")">>
         ELSE <<c.udt_name>>
    ELSE IF IsSome(c.numeric_precision) /\ IsSome(c.numeric_scale) /\ c.numeric_scale[1] > 0
    THEN <<"NUMERIC", "(">> \o ToDigits(c.numeric_precision[1]) \o <<",", " ">>
         \o ToDigits(c.numeric_scale[1]) \o <<")">>
    ELSE <<c.udt_name>>

\* load_info_cc: one column, with the pk / unique flags of the pg_index query and the
\* serial rewrite
loaded_column(table_name, tbl, name) ==
    LET c == tbl.columns[name]
        data_type == loaded_type(c)
        indisprimary == IsSome(tbl.primary_key) /\ name \in Range(tbl.primary_key[1].columns)
        indisunique == indisprimary
                       \/ \E x \in DOMAIN tbl.indexes :
                             /\ tbl.indexes[x].is_unique
                             /\ \E j \in DOMAIN tbl.indexes[x].columns :
                                   tbl.indexes[x].columns[j].column_name = name
        cd == c.column_default
        is_serial == /\ indisprimary /\ cd # <<>> /\ ~c.is_nullable
                     /\ data_type[1] \in {"int2", "int4", "int8"}
                     /\ cd[1] = "nextval('"
                     /\ cd[Len(cd)] = table_name \o "_id_seq'::regclass)"
    IN  [column_name |-> name,
         column_type |-> IF is_serial
                         THEN (IF data_type = <<"int4">> THEN <<"serial">> ELSE <<"bigserial">>)
                         ELSE data_type,
         column_default |-> IF cd = <<>> \/ is_serial THEN None ELSE Some(Join(cd)),
         sql |-> IF indisunique THEN Some("UNIQUE") ELSE None,
         pk |-> indisprimary,
         nullable |-> c.is_nullable,
         fk |-> None]

\* the rule text PostgreSQL keeps for the ON UPDATE / ON DELETE clause of a constraint
update_rule(sql) == IF sql = "ON UPDATE CASCADE" THEN "CASCADE" ELSE "NO ACTION"

delete_rule(sql) == IF sql = "ON DELETE CASCADE" THEN "CASCADE" ELSE "NO ACTION"

\* load_info_fk: the sql text of a loaded foreign key
loaded_fk_sql(fk) ==
    IF update_rule(fk.sql) = "NO ACTION" /\ delete_rule(fk.sql) = "NO ACTION" THEN ""
    ELSE "ON UPDATE " \o update_rule(fk.sql) \o " ON DELETE " \o delete_rule(fk.sql)

\* the constraints of a table whose column the loader knows
loaded_constraints(tbl) ==
    {n \in DOMAIN tbl.fks : tbl.fks[n].column_name \in DOMAIN tbl.columns
                            /\ tbl.fks[n].foreign_column_names # {}}

\* the query of load_info_fk has no ORDER BY: for every constraint, the row read last
FkRowOrders(db) ==
    LET D == {<<s, t, n>> \in UNION {UNION {{<<s1, t1, n1>> : n1 \in DOMAIN db[s1][t1].fks} :
                                             t1 \in DOMAIN db[s1]} : s1 \in DOMAIN db} :
                 n \in loaded_constraints(db[s][t])}
        R == UNION {db[x[1]][x[2]].fks[x[3]].foreign_column_names : x \in D}
    IN  {f \in [D -> R] : \A x \in D : f[x] \in db[x[1]][x[2]].fks[x[3]].foreign_column_names}

\* load_info_fk: the fks map of one table, keyed by column name; hd.fks.get_mut is
\* asked for the constraint name, so each row replaces the entry of its column
loaded_fks(schema, table_name, tbl, last) ==
    LET cols == {tbl.fks[n].column_name : n \in loaded_constraints(tbl)}
        con(col) == CHOOSE n \in loaded_constraints(tbl) : tbl.fks[n].column_name = col
    IN  [col \in cols |->
            [schema |-> tbl.fks[con(col)].foreign_schema_name,
             table |-> tbl.fks[con(col)].foreign_table_name,
             column |-> {last[<<schema, table_name, con(col)>>]},
             name |-> con(col),
             sql |-> loaded_fk_sql(tbl.fks[con(col)])]]

\* load_info_tg: the triggers of one table
loaded_triggers(tbl) ==
    [n \in DOMAIN tbl.triggers |->
        [trigger_name |-> n, event |-> trim(<<tbl.triggers[n].event>>)[1],
         orientation |-> tbl.triggers[n].orientation, proc |-> tbl.triggers[n].proc]]

\* the PgTable load_info_cc, load_info_fk and load_info_tg build for one table
loaded_table(schema, table_name, tbl, last) ==
    LET fks == loaded_fks(schema, table_name, tbl, last)
    IN  [PgTableDefault EXCEPT
           !.columns = [n \in DOMAIN tbl.columns |->
                          LET c == loaded_column(table_name, tbl, n)
                          IN  IF n \in DOMAIN fks
                              THEN [c EXCEPT !.fk = Some(<<<<fks[n].schema, ".", fks[n].table>>,
                                                           fks[n].sql>>)]
                              ELSE c],
           !.fks = fks,
           !.triggers = loaded_triggers(tbl),
           !.owner = Some(tbl.owner)]

\* load_info_schema: load_info_cc, load_info_fk, load_info_tg; information_schema.columns
\* has no row for a table without columns
load_info_schema(db, last) ==
    LET tables(s) == {t \in DOMAIN db[s] : DOMAIN db[s][t].columns # {}}
    IN  [s \in {x \in DOMAIN db : tables(x) # {}} |->
            [t \in tables(s) |-> loaded_table(s, t, db[s][t], last)]]


\* --------------------------------------------------------------------------
\* The invocation: migrate_opt / migrate1, migrate, deploy_all_tables, deploy_all_fk
\* --------------------------------------------------------------------------

\* number of migrations run one after the other on the same database
MaxRuns == 2

\* what migrate returns: text is the message of an execution error
NoResult == [state |-> "none", cnt |-> 0, err |-> "", text |-> <<>>]
Ok(n) == [state |-> "ok", cnt |-> n, err |-> "", text |-> <<>>]
Err(e) == [state |-> "err", cnt |-> 0, err |-> e, text |-> <<>>]

\* Table::format_it: the message holds the phase and the SQL text of the batch
format_it(msg, sql) == <<msg, sql>>

\* the phases of the five batches of Table::deploy, as its error messages name them
Phases ==
    <<"DB execute", "DB execute comments", "DB execute indexes", "DB execute grants",
      "DB execute data upserts">>

\* the error of a batch_execute of Table::deploy or Table::deploy_fk
ExecuteErr(msg, sql) == [Err("execute") EXCEPT !.text = format_it(msg, sql)]

\* the tables the two loops of migrate visit, in order: every table of every schema
\* that is not a template, as <<schema index, table index>>
RECURSIVE Work(_, _, _)
Work(schemas, si, ti) ==
    IF si > Len(schemas) THEN <<>>
    ELSE IF ti > Len(schemas[si].tables) THEN Work(schemas, si + 1, 1)
    ELSE (IF is_template(schemas[si].tables[ti]) THEN <<>> ELSE <<<<si, ti>>>>)
         \o Work(schemas, si, ti + 1)

\* a set of indices as an ascending sequence
RECURSIVE Ascending(_)
Ascending(S) ==
    IF S = {} THEN <<>>
    ELSE LET m == CHOOSE x \in S : \A y \in S : x <= y
         IN  <<m>> \o Ascending(S \ {m})

\* the batches of a list that are not empty, as indices
NonEmpty(batches) == {i \in DOMAIN batches : batches[i] # <<>>}

\* the database after the batches before index k ran, in order
RECURSIVE run_batches(_, _, _, _)
run_batches(db, batches, i, k) ==
    IF i > Len(batches) \/ i >= k THEN db
    ELSE run_batches(batch_execute(db, batches[i], 1), batches, i + 1, k)

\* every batch that is not empty is executed, the ones after the failing one too
executed_calls_all(batches, k, schema, table, pass) ==
    LET idx == Ascending(NonEmpty(batches))
    IN  [n \in DOMAIN idx |->
            [run |-> run, pass |-> pass, s |-> schema, t |-> table, batch |-> idx[n],
             sql |-> batches[idx[n]], ok |-> idx[n] # k]]

\* the batch_execute calls made when batch k fails (k = 0: none fails)
executed_calls(batches, k, schema, table, pass) ==
    LET idx == Ascending({j \in NonEmpty(batches) : k = 0 \/ j <= k})
    IN  [n \in DOMAIN idx |->
            [run |-> run, pass |-> pass, s |-> schema, t |-> table, batch |-> idx[n],
             sql |-> batches[idx[n]], ok |-> idx[n] # k]]

\* migrate_opt / migrate1: connect and open the transaction
Connect ==
    /\ pc = "idle"
    /\ \E ok \in BOOLEAN :
          IF ok
          THEN /\ pc' = "load"
               /\ txdb' = committed
               /\ result' = result
          ELSE /\ pc' = "done"
               /\ result' = Err("connect")
               /\ txdb' = txdb
    /\ UNCHANGED <<types, yaml, options, sink, retry, run, model, live, committed, step, cnt,
                   plans, executed, sunk, commits>>

\* migrate: current_database() and load_info_schema
LoadInfoSchema ==
    /\ pc = "load"
    /\ \E ok \in BOOLEAN : \E last \in FkRowOrders(txdb) :
          IF ok
          THEN /\ live' = load_info_schema(txdb, last)
               /\ pc' = "parse"
               /\ result' = result
          ELSE /\ live' = live
               /\ pc' = "failed"
               /\ result' = Err("load")
    /\ UNCHANGED <<types, yaml, options, sink, retry, run, model, txdb, committed, step, cnt,
                   plans, executed, sunk, commits>>

\* migrate: parse_yaml_schema returned r
Parsed(r) ==
    IF r.err = ""
    THEN /\ model' = r.list
         /\ pc' = "tables"
         /\ step' = 1
         /\ result' = result
    ELSE /\ model' = model
         /\ pc' = "failed"
         /\ step' = step
         /\ result' = Err(r.err)

\* migrate: parse_yaml_schema
ParseYaml ==
    /\ pc = "parse"
    /\ Parsed(parse_yaml_schema(yaml))
    /\ UNCHANGED <<types, yaml, options, sink, retry, run, live, txdb, committed, cnt,
                   plans, executed, sunk, commits>>

\* Table::deploy from `match dry_run` on, for the plan p; fail is the batch whose
\* batch_execute returns an error (the sink's error under dry run), 0 when every
\* call succeeds
DeployPlanned(schema, self, p, fail) ==
    /\ IF IsSome(p.err) THEN fail = 0
       ELSE IF sink THEN fail \in {0, 1}
       ELSE fail = 0 \/ (p.exec /\ fail \in NonEmpty(p.batches))
    /\ live' = p.dbc
    /\ plans' = Append(plans,
                   [run |-> run, pass |-> "table", s |-> schema, t |-> self.table_name,
                    batches |-> p.batches, exec |-> p.exec, err |-> p.err,
                    skipped |-> p.skipped, failed |-> fail # 0,
                    counted |-> ~IsSome(p.err) /\ fail = 0 /\ ~sink /\ p.exec])
    /\ sunk' = IF sink /\ ~IsSome(p.err)
               THEN Append(sunk, [run |-> run, pass |-> "table", s |-> schema,
                                  t |-> self.table_name, batches |-> p.batches,
                                  ok |-> fail = 0])
               ELSE sunk
    /\ executed' = IF ~sink /\ p.exec /\ ~IsSome(p.err)
                   THEN executed \o executed_calls(p.batches, fail, schema,
                                                   self.table_name, "table")
                   ELSE executed
    /\ txdb' = IF ~sink /\ p.exec /\ ~IsSome(p.err)
               THEN run_batches(txdb, p.batches, 1, IF fail = 0 THEN 6 ELSE fail)
               ELSE txdb
    /\ IF IsSome(p.err) \/ fail # 0
       THEN /\ pc' = "failed"
            /\ result' = IF IsSome(p.err) THEN Err(p.err[1].kind)
                          ELSE IF sink THEN Err("sink")
                          ELSE ExecuteErr(Phases[fail], p.batches[fail])
            /\ UNCHANGED <<step, cnt>>
       ELSE /\ pc' = pc
            /\ result' = result
            /\ step' = step + 1
            /\ cnt' = IF ~sink /\ p.exec THEN cnt + 1 ELSE cnt

\* Table::deploy of the table self of the schema, under the iteration orders ord
DeployOrdered(schema, self, ord) ==
    \E fail \in 0..5 :
        DeployPlanned(schema, self, deploy_plan(self, schema, live, options, ord), fail)

\* Schema::deploy_all_tables, one iteration: Table::deploy of the next table
DeployAt(w) ==
    \E ord \in deploy_orders(model[w[1]].tables[w[2]], model[w[1]].schema_name, live) :
        DeployOrdered(model[w[1]].schema_name, model[w[1]].tables[w[2]], ord)

DeployTable ==
    /\ pc = "tables"
    /\ step <= Len(Work(model, 1, 1))
    /\ DeployAt(Work(model, 1, 1)[step])
    /\ UNCHANGED <<types, yaml, options, sink, retry, run, model, committed, commits>>

\* the second loop starts while the first still has tables to deploy
EndTablePassEarly ==
    /\ pc = "tables"
    /\ pc' = "fks"
    /\ step' = 1
    /\ UNCHANGED <<types, yaml, options, sink, retry, run, model, live, txdb, committed, cnt,
                   plans, executed, sunk, result, commits>>

\* migrate: the first loop is over, the second starts
EndTablePass ==
    /\ pc = "tables"
    /\ step > Len(Work(model, 1, 1))
    /\ pc' = "fks"
    /\ step' = 1
    /\ UNCHANGED <<types, yaml, options, sink, retry, run, model, live, txdb, committed, cnt,
                   plans, executed, sunk, result, commits>>

\* the foreign-key batch is executed on the transaction although a sink took it
DeployFkPlannedExecuting(schema, self, p, failed) ==
    /\ failed => (sink \/ p.exec)
    /\ live' = p.dbc
    /\ plans' = Append(plans,
                   [run |-> run, pass |-> "fk", s |-> schema, t |-> self.table_name,
                    batches |-> <<p.sql>>, exec |-> p.exec, err |-> None,
                    skipped |-> <<>>, failed |-> failed, counted |-> ~failed /\ ~sink])
    /\ sunk' = IF sink
               THEN Append(sunk, [run |-> run, pass |-> "fk", s |-> schema,
                                  t |-> self.table_name, batches |-> <<p.sql>>,
                                  ok |-> ~failed])
               ELSE sunk
    /\ executed' = IF p.exec
                   THEN Append(executed,
                               [run |-> run, pass |-> "fk", s |-> schema,
                                t |-> self.table_name, batch |-> 1,
                                sql |-> p.sql, ok |-> ~failed])
                   ELSE executed
    /\ txdb' = IF p.exec /\ ~failed THEN batch_execute(txdb, p.sql, 1) ELSE txdb
    /\ IF failed
       THEN /\ pc' = "failed"
            /\ result' = IF sink THEN Err("sink") ELSE ExecuteErr("DB FK execute", p.sql)
            /\ UNCHANGED <<step, cnt>>
       ELSE /\ pc' = pc
            /\ result' = result
            /\ step' = step + 1
            /\ cnt' = IF sink THEN cnt ELSE cnt + 1

\* Table::deploy_fk from `match dry_run` on, for the plan p
DeployFkPlanned(schema, self, p, failed) ==
    /\ failed => (sink \/ p.exec)
    /\ live' = p.dbc
    /\ plans' = Append(plans,
                   [run |-> run, pass |-> "fk", s |-> schema, t |-> self.table_name,
                    batches |-> <<p.sql>>, exec |-> p.exec, err |-> None,
                    skipped |-> <<>>, failed |-> failed, counted |-> ~failed /\ ~sink])
    /\ sunk' = IF sink
               THEN Append(sunk, [run |-> run, pass |-> "fk", s |-> schema,
                                  t |-> self.table_name, batches |-> <<p.sql>>,
                                  ok |-> ~failed])
               ELSE sunk
    /\ executed' = IF ~sink /\ p.exec
                   THEN Append(executed,
                               [run |-> run, pass |-> "fk", s |-> schema,
                                t |-> self.table_name, batch |-> 1,
                                sql |-> p.sql, ok |-> ~failed])
                   ELSE executed
    /\ txdb' = IF ~sink /\ p.exec /\ ~failed THEN batch_execute(txdb, p.sql, 1) ELSE txdb
    /\ IF failed
       THEN /\ pc' = "failed"
            /\ result' = IF sink THEN Err("sink") ELSE ExecuteErr("DB FK execute", p.sql)
            /\ UNCHANGED <<step, cnt>>
       ELSE /\ pc' = pc
            /\ result' = result
            /\ step' = step + 1
            /\ cnt' = IF sink THEN cnt ELSE cnt + 1

\* Table::deploy_fk of the table self of the schema
DeployFkOf(schema, self) ==
    \E order \in Orders(fk_keys(self, model, live, schema)) : \E failed \in BOOLEAN :
        DeployFkPlanned(schema, self,
                        deploy_fk_plan(self, model, live, schema, retry, order), failed)

\* Schema::deploy_all_fk, one iteration: Table::deploy_fk of the next table
DeployFk ==
    /\ pc = "fks"
    /\ step <= Len(Work(model, 1, 1))
    /\ DeployFkOf(model[Work(model, 1, 1)[step][1]].schema_name,
                  model[Work(model, 1, 1)[step][1]].tables[Work(model, 1, 1)[step][2]])
    /\ UNCHANGED <<types, yaml, options, sink, retry, run, model, committed, commits>>

\* migrate: Ok(cnt)
Return ==
    /\ pc = "fks"
    /\ step > Len(Work(model, 1, 1))
    /\ pc' = "returned"
    /\ result' = Ok(cnt)
    /\ UNCHANGED <<types, yaml, options, sink, retry, run, model, live, txdb, committed, step, cnt,
                   plans, executed, sunk, commits>>

\* migrate_opt / migrate1: tx.commit() after migrate returned Ok
Commit ==
    /\ pc = "returned"
    /\ \E ok \in BOOLEAN :
          IF ok
          THEN /\ committed' = txdb
               /\ commits' = commits + 1
               /\ result' = result
               /\ txdb' = txdb
          ELSE /\ committed' = committed
               /\ commits' = commits
               /\ result' = Err("commit")
               /\ txdb' = committed
    /\ pc' = "done"
    /\ UNCHANGED <<types, yaml, options, sink, retry, run, model, live, step, cnt,
                   plans, executed, sunk>>

\* the error is returned and what the transaction did stays
RollbackKeeps ==
    /\ pc = "failed"
    /\ committed' = txdb
    /\ pc' = "done"
    /\ UNCHANGED <<types, yaml, options, sink, retry, run, model, live, txdb, step, cnt,
                   plans, executed, sunk, result, commits>>

\* migrate_opt / migrate1: `?` returns the error, the transaction is dropped
Rollback ==
    /\ pc = "failed"
    /\ txdb' = committed
    /\ pc' = "done"
    /\ UNCHANGED <<types, yaml, options, sink, retry, run, model, live, committed, step, cnt,
                   plans, executed, sunk, result, commits>>

\* the caller runs the same migration again
Rerun ==
    /\ pc = "done"
    /\ run < MaxRuns
    /\ result.state = "ok"
    /\ ~sink
    /\ run' = run + 1
    /\ pc' = "idle"
    /\ model' = <<>>
    /\ live' = EmptyMap
    /\ step' = 1
    /\ cnt' = 0
    /\ result' = NoResult
    /\ commits' = 0
    /\ UNCHANGED <<types, yaml, options, sink, retry, txdb, committed, plans, executed, sunk>>


\* --------------------------------------------------------------------------
\* Inputs: MigrationOptions and YAML documents
\* --------------------------------------------------------------------------

\* MigrationOptions::default()
OptionsDefault ==
    [with_size_cut |-> FALSE, with_index_drop |-> FALSE, with_trigger_drop |-> FALSE,
     with_revoke |-> FALSE, without_failfast |-> FALSE, with_ddl_retry |-> FALSE,
     exclude_triggers |-> FALSE]

AllOptions ==
    [with_size_cut : BOOLEAN, with_index_drop : BOOLEAN, with_trigger_drop : BOOLEAN,
     with_revoke : BOOLEAN, without_failfast : BOOLEAN, with_ddl_retry : BOOLEAN,
     exclude_triggers : BOOLEAN]

\* the ways migrate is entered: migrate_opt / migrate1 (no sink, retry = true), and a
\* caller that hands a dry-run sink
Entries == {[sink |-> FALSE, retry |-> TRUE], [sink |-> TRUE, retry |-> FALSE]}

Varchar64 == <<"varchar", "(", "6", "4", ")">>
Varchar128 == <<"varchar", "(", "1", "2", "8", ")">>

Col(name, type) == Column(<<name>>, type, FALSE, TRUE, None, None)
PkCol(name, type) == Column(<<name>>, type, TRUE, FALSE, None, None)
NotNullCol(name, type) == Column(<<name>>, type, FALSE, FALSE, None, None)
FkCol(name, type, ref) == Column(<<name>>, type, FALSE, TRUE, ForeignKey(ref), None)

\* a table and a schema entry of a YAML document; the names of a document are
\* texts, here of one token
Table(name, columns) == [TableDefault EXCEPT !.table_name = <<name>>, !.columns = columns]

Entry(schema_name, tables) == [schema_name |-> <<schema_name>>, tables |-> tables]

Users == Table("users", <<PkCol("id", <<"serial">>), NotNullCol("email", Varchar64)>>)

\* users with an index, a grant, an owner, a trigger, a comment and a seed row
UsersFull ==
    [Users EXCEPT
       !.columns[2].index = Some(IndexDefault),
       !.grant = <<[YGrantNone EXCEPT !.select = <<"reader">>]>>,
       !.owner = "alice",
       !.description = "accounts",
       !.triggers = <<Trig(<<"touch">>, "before update", "for each row", <<"touch()">>)>>,
       !.data = <<<<"1", "root@example.org">>>>]

\* a table without primary key, with an indexed column
Events == Table("events", <<Col("kind", <<"text">>),
                            [Col("at", <<"timestamptz">>) EXCEPT !.index = Some(IndexDefault)]>>)

Posts(ref) == Table("posts", <<PkCol("id", <<"serial">>), FkCol("user_id", <<"int">>, ref)>>)

\* two columns that reference the same table
Reviews ==
    Table("reviews", <<PkCol("id", <<"serial">>),
                       FkCol("author_id", <<"int">>, <<"users">>),
                       FkCol("editor_id", <<"int">>, <<"users">>)>>)

\* a template, a table that uses it, and a table with a column that references it
Base ==
    [Table("base", <<PkCol("id", <<"serial">>), Col("created", <<"timestamptz">>)>>)
       EXCEPT !.is_template = TRUE]

Items == [Table("items", <<Col("title", <<"text">>)>>) EXCEPT !.use_templates = <<<<"base">>>>]

Notes == Table("notes", <<PkCol("id", <<"serial">>), FkCol("base_id", <<"int">>, <<"base">>)>>)

\* a table with a primary key of several columns that are not declared in a row,
\* with seed rows, that takes more columns from a template
Ledger ==
    [Table("ledger", <<PkCol("tenant", <<"int">>), Col("note", <<"text">>),
                       PkCol("seq", <<"int">>)>>)
       EXCEPT !.use_templates = <<<<"base">>>>,
              !.data = <<<<"1", "2026-01-01", "7", "n", "3">>, <<"2", "2026-01-02">>>>]

\* the documents handed to migrate
Documents ==
    {<<Entry("app", <<Users>>)>>,
     <<Entry("app", <<UsersFull>>)>>,
     <<Entry("app", <<Events>>)>>,
     <<Entry("app", <<Posts(<<"users">>), Users>>)>>,
     <<Entry("blog", <<Posts(<<"app", ".", "users">>)>>), Entry("app", <<Users>>)>>,
     <<Entry("app", <<Users, Reviews>>)>>,
     <<Entry("app", <<Base, Items, Notes>>)>>,
     <<Entry("app", <<Base, Ledger>>)>>,
     <<Entry("app", <<Base, Ledger, Items>>)>>,
     <<Entry("app", <<[UsersFull EXCEPT !.transaction = "retry"],
                      [Posts(<<"users">>) EXCEPT !.transaction = "table"]>>)>>,
     <<Entry("app", <<Users>>), Entry("app", <<Users>>)>>}

\* a database with the public schema and nothing else
EmptyDb == [s \in {"public"} |-> EmptyMap]

\* the classifier is not called on its own
NoTypes == existing_str = <<>> /\ desired_str = <<>> /\ change = "none"

Init ==
    /\ yaml \in Documents
    /\ options \in AllOptions
    /\ \E e \in Entries : sink = e.sink /\ retry = e.retry
    /\ pc = "idle"
    /\ run = 1
    /\ model = <<>>
    /\ live = EmptyMap
    /\ txdb = EmptyDb
    /\ committed = EmptyDb
    /\ step = 1
    /\ cnt = 0
    /\ plans = <<>>
    /\ executed = <<>>
    /\ sunk = <<>>
    /\ result = NoResult
    /\ commits = 0
    /\ NoTypes

Next ==
    \/ Connect
    \/ LoadInfoSchema
    \/ ParseYaml
    \/ DeployTable
    \/ EndTablePass
    \/ DeployFk
    \/ Return
    \/ Commit
    \/ Rollback
    \/ Rerun

Spec == Init /\ [][Next]_vars


\* --------------------------------------------------------------------------
\* The planner on an existing table: Schema::deploy_all_tables and deploy_all_fk
\* called on a LiveModel that holds the table, and called again on the LiveModel
\* they left (the LiveModel is the caller's, `dbc: &mut InfoSchemaType`)
\* --------------------------------------------------------------------------

Varchar32 == <<"varchar", "(", "3", "2", ")">>

\* the users table of a YAML document, with everything the planner compares
Accounts == UsersFull

\* the tables the database holds when the planner starts
LiveTables == {Accounts, Users}

\* the tables of the YAML documents planned against them: Accounts and Users,
\* and Accounts with a column type, the trigger, the index, the primary key, the
\* grants or the owner changed, or a column or a primary-key column added, and a
\* second table of the schema
PlanTables ==
    {Accounts, Users, Events,
     [Accounts EXCEPT !.columns[2].column_type = Varchar128],
     [Accounts EXCEPT !.columns[2].column_type = Varchar32],
     [Accounts EXCEPT !.columns[2].column_type = <<"int">>],
     [Accounts EXCEPT !.columns[2].column_type = <<"text">>],
     [Accounts EXCEPT !.triggers[1].proc = <<"stamp()">>],
     [Accounts EXCEPT !.columns[2].index = Some([IndexDefault EXCEPT !.unique = TRUE])],
     [Accounts EXCEPT !.columns[2].index =
                         Some([IndexDefault EXCEPT !.using = "btree", !.order = "ASC",
                                                   !.nulls = "LAST"])],
     [Accounts EXCEPT !.columns[2].index = Some([IndexDefault EXCEPT !.order = "DESC"])],
     [Accounts EXCEPT !.columns[1].index = Some([IndexDefault EXCEPT !.name = "by_both"]),
                      !.columns[2].index = Some([IndexDefault EXCEPT !.name = "by_both",
                                                                     !.nulls = "FIRST"])],
     [Accounts EXCEPT !.columns[2].pk = TRUE],
     [Accounts EXCEPT !.columns = Append(@, PkCol("code", <<"int">>))],
     [Accounts EXCEPT !.grant = <<[YGrantNone EXCEPT !.select = <<"writer">>]>>],
     [Accounts EXCEPT !.grant = <<[YGrantNone EXCEPT !.insert = <<"reader">>]>>],
     [Accounts EXCEPT !.grant = <<[YGrantNone EXCEPT !.all = <<"reader">>],
                                  [YGrantNone EXCEPT !.select = <<"writer">>,
                                                     !.update = <<"writer">>]>>],
     [Accounts EXCEPT !.owner = "bob"],
     [Accounts EXCEPT !.columns = Append(@, FkCol("parent_id", <<"int">>, <<"users">>))],
     [Accounts EXCEPT !.columns[2].column_type = Varchar128,
                      !.triggers[1].proc = <<"stamp()">>],
     [Accounts EXCEPT !.columns[2].column_type = Varchar32,
                      !.triggers[1].proc = <<"stamp()">>,
                      !.columns[2].index = Some([IndexDefault EXCEPT !.unique = TRUE])]}

\* the database after the plan p of a table was executed on an empty database, and
\* the LiveModel: the one the planner left (loaded = FALSE) or the one
\* load_info_schema reads from that database
PlannedOn(p, loaded) ==
    /\ txdb = run_batches(EmptyDb, p.batches, 1, 6)
    /\ live = IF loaded THEN load_info_schema(txdb, <<>>) ELSE p.dbc

\* a document migrated earlier, which declares more than the planned documents do:
\* users with two more columns, one of them a foreign key, a second table of the
\* schema app, and a second schema
LegacyUsers ==
    [Accounts EXCEPT !.columns = @ \o <<Col("nickname", <<"text">>),
                                        FkCol("parent_id", <<"int">>, <<"users">>)>>]

LegacyDocument == <<Entry("app", <<LegacyUsers, Events>>), Entry("audit", <<Events>>)>>

\* Table::deploy of the table self on the pair of database and LiveModel s, the
\* statements executed
LegacyTable(s, schema, self) ==
    LET p == deploy_plan(self, schema, s.dbc, OptionsDefault,
                         CHOOSE ord \in deploy_orders(self, schema, s.dbc) : TRUE)
    IN  [db |-> run_batches(s.db, p.batches, 1, 6), dbc |-> p.dbc]

\* Table::deploy_fk of the table self on the pair s, the statements executed
LegacyFk(s, schemas, schema, self) ==
    LET p == deploy_fk_plan(self, schemas, s.dbc, schema, TRUE,
                            CHOOSE order \in Orders(fk_keys(self, schemas, s.dbc, schema)) : TRUE)
    IN  [db |-> IF p.exec THEN batch_execute(s.db, p.sql, 1) ELSE s.db, dbc |-> p.dbc]

\* migrate of LegacyDocument on an empty database
Legacy ==
    LET m == parse_yaml_schema(LegacyDocument).list
        s1 == LegacyTable([db |-> EmptyDb, dbc |-> EmptyMap], "app", m[1].tables[1])
        s2 == LegacyTable(s1, "app", m[1].tables[2])
        s3 == LegacyTable(s2, "audit", m[2].tables[1])
    IN  LegacyFk(s3, m, "app", m[1].tables[1])

\* the database LegacyDocument left, and the LiveModel as in PlannedOn
LegacyOn(s, loaded) ==
    /\ txdb = s.db
    /\ live = IF loaded THEN load_info_schema(txdb, CHOOSE last \in FkRowOrders(txdb) : TRUE)
              ELSE s.dbc

InitPlan ==
    /\ \E t \in PlanTables : yaml = <<Entry("app", <<t>>)>>
    /\ model = parse_yaml_schema(yaml).list
    /\ sink \in BOOLEAN
    /\ retry = ~sink
    /\ options \in {o \in AllOptions : o.with_ddl_retry = retry}
    /\ \/ \E a \in LiveTables : \E loaded \in BOOLEAN :
             \E ord \in deploy_orders(Table_new(a), "app", EmptyMap) :
                PlannedOn(deploy_plan(Table_new(a), "app", EmptyMap, OptionsDefault, ord), loaded)
       \/ \E loaded \in BOOLEAN : LegacyOn(Legacy, loaded)
    /\ committed = EmptyDb
    /\ pc = "tables"
    /\ run = 1
    /\ step = 1
    /\ cnt = 0
    /\ plans = <<>>
    /\ executed = <<>>
    /\ sunk = <<>>
    /\ result = NoResult
    /\ commits = 0
    /\ NoTypes

\* the caller plans the same document again over the LiveModel the passes left
Replan ==
    /\ pc = "fks"
    /\ step > Len(Work(model, 1, 1))
    /\ run < MaxRuns
    /\ run' = run + 1
    /\ pc' = "tables"
    /\ step' = 1
    /\ UNCHANGED <<types, yaml, options, sink, retry, model, live, txdb, committed, cnt,
                   plans, executed, sunk, result, commits>>

NextPlan ==
    \/ DeployTable
    \/ EndTablePass
    \/ DeployFk
    \/ Return
    \/ Replan

SpecPlan == InitPlan /\ [][NextPlan]_vars


\* --------------------------------------------------------------------------
\* The classifier called on its own: analyze_type_change on two type strings
\* --------------------------------------------------------------------------

\* base(n) and base(p,s) as type strings
Sized(base, n) == <<base, "(">> \o ToDigits(n) \o <<")">>
Scaled(base, p, s) == <<base, "(">> \o ToDigits(p) \o <<",">> \o ToDigits(s) \o <<")">>

\* the names of the varchar base and of the numeric base, as written in a YAML
\* document or loaded from the catalogue
VarcharNames == {"varchar", "character varying", "VARCHAR"}
NumericNames == {"numeric", "decimal", "NUMERIC"}

VarcharSizes == {9, 10, 64, 128}
Precisions == {8, 10, 12}
Scales == {0, 2, 4}

\* type strings whose parentheses are malformed: nothing after the opening one,
\* no closing one, nothing or no number between them, a missing scale
Malformed ==
    {<<"varchar", "(">>, <<"text", "(">>, <<"varchar", "(", "6", "4">>,
     <<"varchar", "(", ")">>, <<"varchar", "(", "x", ")">>,
     <<"numeric", "(", "1", "0", ",", ")">>, <<"numeric", "(", ",", "2", ")">>}

\* more base types: with an entry in the table of min_varchar_size, and without
OtherBases ==
    {"smallint", "real", "float8", "timestamp", "timetz", "date", "uuid", "json",
     "inet", "char"}

\* varchar sizes next to the entries of the table of min_varchar_size
MinSizes == {4, 5, 6, 11, 20, 36}

TypeStrings ==
    {<<b>> : b \in {"varchar", "character varying", "text", "int", "bigint", "numeric",
                    "decimal", "bool", "jsonb"} \cup OtherBases}
    \cup {Sized("varchar", n) : n \in MinSizes}
    \cup {Sized("char", n) : n \in VarcharSizes}
    \cup {Sized(b, n) : b \in VarcharNames, n \in VarcharSizes}
    \cup {Sized(b, p) : b \in NumericNames, p \in Precisions}
    \cup {Scaled(b, p, sc) : b \in NumericNames, p \in Precisions, sc \in Scales}
    \cup {<<"numeric", "(", "1", "0", ",", " ", "2", ")">>, <<" ", "varchar", " ", "(", "9", ")">>}
    \cup Malformed

\* no migration is under way
NoMigration ==
    /\ yaml = <<>>
    /\ options = OptionsDefault
    /\ sink = FALSE
    /\ retry = TRUE
    /\ pc = "idle"
    /\ run = 1
    /\ model = <<>>
    /\ live = EmptyMap
    /\ txdb = EmptyDb
    /\ committed = EmptyDb
    /\ step = 1
    /\ cnt = 0
    /\ plans = <<>>
    /\ executed = <<>>
    /\ sunk = <<>>
    /\ result = NoResult
    /\ commits = 0

InitTypes ==
    /\ existing_str \in TypeStrings
    /\ desired_str \in TypeStrings
    /\ change = "none"
    /\ NoMigration

\* analyze_type_change(existing, desired); "Panic" when it panics
AnalyzeTypeChange ==
    /\ change = "none"
    /\ change' = analyze_type_change(existing_str, desired_str)
    /\ UNCHANGED <<existing_str, desired_str, yaml, options, sink, retry, pc, run, model,
                   live, txdb, committed, step, cnt, plans, executed, sunk, result,
                   commits>>

NextTypes == AnalyzeTypeChange

SpecTypes == InitTypes /\ [][NextTypes]_vars


\* --------------------------------------------------------------------------
\* The parser called on its own: parse_yaml_schema on a YAML document
\* --------------------------------------------------------------------------

\* the texts a YAML document gives as a name: a plain name, and names with a
\* semicolon, a space, a dot, a newline, a tab or a comment in them
Texts ==
    {<<"a">>, <<"a", ";", "x">>, <<"a", " ", "b">>, <<"b", ".", "c">>,
     <<"b", "\n", "c">>, <<"c", "\t">>, <<"a", "--", "b">>}

\* a document of one table, with the five kinds of name a document holds
DocNames(s, t, c, tr, g) ==
    <<[schema_name |-> s,
       tables |-> <<[TableDefault EXCEPT
                       !.table_name = t,
                       !.columns = <<PkCol("id", <<"serial">>),
                                     Column(c, <<"text">>, FALSE, TRUE, None, None)>>,
                       !.triggers = <<Trig(tr, "before update", "for each row",
                                           <<"touch()">>)>>,
                       !.grant = <<[YGrantNone EXCEPT !.select = g]>>]>>]>>

NameDocuments == {DocNames(s, t, c, tr, g) : s, t \in Texts, c, tr, g \in {<<"a">>, <<"a", ";", "x">>, <<"b", ".", "c">>, <<"a", "--", "b">>}}

\* a document of two entries and three tables, where a schema name, a table name,
\* a column name and a trigger name may come twice
DocTwice(s2, t2, t3, c2, r2) ==
    <<[schema_name |-> <<"app">>,
       tables |-> <<[Table("t", <<PkCol("id", <<"serial">>), Col("x", <<"text">>),
                                  Column(c2, <<"text">>, FALSE, TRUE, None, None)>>)
                       EXCEPT !.triggers =
                                <<Trig(<<"p">>, "before update", "for each row",
                                       <<"touch()">>),
                                  Trig(r2, "after insert", "for each row",
                                       <<"touch()">>)>>],
                     [Table("u", <<PkCol("id", <<"serial">>)>>) EXCEPT !.table_name = t2]>>],
      [schema_name |-> s2,
       tables |-> <<[Table("v", <<PkCol("id", <<"serial">>)>>) EXCEPT !.table_name = t3]>>]>>

TwiceDocuments ==
    {DocTwice(s2, t2, t3, c2, r2) :
        s2 \in {<<"app">>, <<"blog">>}, t2 \in {<<"t">>, <<"u">>}, t3 \in {<<"t">>, <<"v">>},
        c2 \in {<<"x">>, <<"y">>, <<"x", " ", "z">>}, r2 \in {<<"p">>, <<"q">>, <<>>}}

\* owner, description, create-suffix SQL and table-level constraint of a table
Scalars(owner, description, sql, constraint) ==
    [owner |-> owner, description |-> description, sql |-> sql, constraint |-> constraint]

WithScalars(t, f) ==
    [t EXCEPT !.owner = f.owner, !.description = f.description, !.sql = f.sql,
              !.constraint = f.constraint]

TemplateScalars ==
    {Scalars("", "", "", ""),
     Scalars("alice", "base rows", "", ""),
     Scalars("alice", "base rows", "with (fillfactor=70)", "unique (created)")}

OwnScalars ==
    {Scalars("", "", "", ""),
     Scalars("bob", "", "with (fillfactor=90)", ""),
     Scalars("bob", "item rows", "with (fillfactor=90)", "unique (title)")}

\* the columns, triggers and grants a table that uses the template may declare:
\* some have the name of an entry of the template
OwnColumns ==
    {<<Col("title", <<"text">>)>>,
     <<Col("created", <<"date">>), Col("title", <<"text">>)>>,
     <<Col("title", <<"text">>), PkCol("id", <<"bigserial">>)>>}

OwnTriggers ==
    {<<>>,
     <<Trig(<<"q">>, "before delete", "for each row", <<"audit()">>)>>,
     <<Trig(<<"r">>, "before delete", "for each row", <<"audit()">>),
       Trig(<<"p">>, "after update", "for each statement", <<"audit()">>)>>}

OwnGrants ==
    {<<>>,
     <<[YGrantNone EXCEPT !.all = <<"reader">>]>>,
     <<[YGrantNone EXCEPT !.select = <<"writer">>], [YGrantNone EXCEPT !.all = <<"reader">>]>>}

\* a document of a template and a table that uses it
DocTemplate(columns, triggers, grants, own, template) ==
    <<[schema_name |-> <<"app">>,
       tables |->
         <<WithScalars(
             [Table("base", <<PkCol("id", <<"serial">>), Col("created", <<"timestamptz">>)>>)
                EXCEPT !.is_template = TRUE,
                       !.triggers = <<Trig(<<"p">>, "before update", "for each row",
                                           <<"touch()">>),
                                      Trig(<<"q">>, "after insert", "for each row",
                                           <<"touch()">>)>>,
                       !.grant = <<[YGrantNone EXCEPT !.select = <<"reader">>]>>],
             template),
           WithScalars(
             [Table("items", columns)
                EXCEPT !.use_templates = <<<<"base">>>>,
                       !.triggers = triggers,
                       !.grant = grants],
             own)>>]>>

TemplateDocuments ==
    {DocTemplate(c, t, g, o, b) :
        c \in OwnColumns, t \in OwnTriggers, g \in OwnGrants,
        o \in OwnScalars, b \in TemplateScalars}

ParseDocuments == NameDocuments \cup TwiceDocuments \cup TemplateDocuments

InitParse ==
    /\ yaml \in ParseDocuments
    /\ options = OptionsDefault
    /\ sink = FALSE
    /\ retry = TRUE
    /\ pc = "parse"
    /\ run = 1
    /\ model = <<>>
    /\ live = EmptyMap
    /\ txdb = EmptyDb
    /\ committed = EmptyDb
    /\ step = 1
    /\ cnt = 0
    /\ plans = <<>>
    /\ executed = <<>>
    /\ sunk = <<>>
    /\ result = NoResult
    /\ commits = 0
    /\ NoTypes

NextParse == ParseYaml

SpecParse == InitParse /\ [][NextParse]_vars


\* --------------------------------------------------------------------------
\* Properties of a migration (specification Spec)
\* --------------------------------------------------------------------------

\* the statements of a plan, all batches together
Statements(p) == Flatten(p.batches)

\* the plans of one pass of one run, as indices of plans
PlansOf(r, pass) == {i \in DOMAIN plans : plans[i].run = r /\ plans[i].pass = pass}

\* the statements of kind k of the plans I
Emitted(I, k) == {st \in UNION {Range(Statements(plans[i])) : i \in I} : st.k = k}

\* the tables of the YAML model with is_template = true, as <<schema, table>>
Templates ==
    UNION {{<<model[si].schema_name, model[si].tables[ti].table_name>> :
               ti \in {j \in DOMAIN model[si].tables : is_template(model[si].tables[j])}} :
           si \in DOMAIN model}

\* the tables of the YAML model the two passes visit, as <<schema, table>>
Deployed ==
    {<<model[w[1]].schema_name, model[w[1]].tables[w[2]].table_name>> :
        w \in Range(Work(model, 1, 1))}

\* C1: migrating the same document with the same options twice against a database
\* that starts empty, the first run emits at least one statement and the second run
\* plans every table without error and with every batch empty.
C1_SecondRunEmitsNothing ==
    /\ (run = 1 /\ pc = "returned") =>
          \E i \in PlansOf(1, "table") \cup PlansOf(1, "fk") : NonEmpty(plans[i].batches) # {}
    /\ \A i \in PlansOf(2, "table") \cup PlansOf(2, "fk") :
          ~IsSome(plans[i].err) /\ NonEmpty(plans[i].batches) = {}

\* C6: no statement of any pass has a template table as its subject, no ADD
\* CONSTRAINT references a template table, and the LiveModel never holds an entry
\* for a template table.
C6_TemplatePurity ==
    /\ \A i \in DOMAIN plans : plans[i].run = run =>
          /\ <<plans[i].s, plans[i].t>> \notin Templates
          /\ \A st \in Range(Statements(plans[i])) :
                /\ <<st.s, st.t>> \notin Templates
                /\ st.k = "ADD FOREIGN KEY" => <<st.ref_s, st.ref_t>> \notin Templates
    /\ \A tpl \in Templates : tpl[1] \in DOMAIN live => tpl[2] \notin DOMAIN live[tpl[1]]

\* the statements that name a template table are those of the foreign-key pass only
C6_TablePassPure ==
    \A i \in PlansOf(run, "table") :
        /\ <<plans[i].s, plans[i].t>> \notin Templates
        /\ \A st \in Range(Statements(plans[i])) : <<st.s, st.t>> \notin Templates

\* C7: every foreign-key planning of a run comes after the table pass has planned
\* every non-template table of every schema, and the table an emitted foreign key
\* references, when it is a non-template table of the YAML, is in the LiveModel
\* (and, when statements are executed, in the database) at that moment.
C7_TwoPhaseOrdering ==
    /\ \A i \in PlansOf(run, "fk") :
          /\ \A j \in PlansOf(run, "table") : j < i
          /\ {<<plans[j].s, plans[j].t>> : j \in PlansOf(run, "table")} = Deployed
          /\ \A j \in PlansOf(run, "table") : ~IsSome(plans[j].err) /\ ~plans[j].failed
    /\ \A st \in Emitted(PlansOf(run, "fk"), "ADD FOREIGN KEY") :
          <<st.ref_s, st.ref_t>> \in Deployed =>
             /\ st.ref_s \in DOMAIN live /\ st.ref_t \in DOMAIN live[st.ref_s]
             /\ (~sink /\ pc \in {"fks", "returned"}) =>
                   (st.ref_s \in DOMAIN txdb /\ st.ref_t \in DOMAIN txdb[st.ref_s])

\* a foreign key was emitted for a table declared before the table it references,
\* and for a table of a schema declared before the schema of the table it references
C7_Witness ==
    /\ pc = "returned"
    /\ \E st \in Emitted(PlansOf(run, "fk"), "ADD FOREIGN KEY") :
          /\ <<st.ref_s, st.ref_t>> \in Deployed
          /\ \E i, j \in PlansOf(run, "table") :
                /\ i < j
                /\ <<plans[i].s, plans[i].t>> = <<st.s, st.t>>
                /\ <<plans[j].s, plans[j].t>> = <<st.ref_s, st.ref_t>>

\* the columns of the non-template table w of the YAML model that declare a foreign
\* key to a table with primary-key columns in the YAML model
FkColumns(w) ==
    {c \in Range(model[w[1]].tables[w[2]].columns) :
        /\ IsSome(c.fk)
        /\ pks(split_ref(c.fk[1].references, model[w[1]].schema_name)[1],
               split_ref(c.fk[1].references, model[w[1]].schema_name)[2], model) # {}}

\* the ADD CONSTRAINT statements of the foreign-key pass of this run on column c of
\* the table t of the schema s, as <<plan, position>>
FkStatements(s, t, c) ==
    {<<i, n>> \in PlansOf(run, "fk") \X (1..3) :
        /\ n \in DOMAIN Statements(plans[i])
        /\ Statements(plans[i])[n].k = "ADD FOREIGN KEY"
        /\ Statements(plans[i])[n].s = s
        /\ Statements(plans[i])[n].t = t
        /\ Statements(plans[i])[n].c = c}

\* C8: when the foreign-key pass of a migration of an empty database (no foreign key
\* in the LiveModel) is over, every column that declares a foreign key to a table
\* with primary-key columns has exactly one ADD CONSTRAINT statement and a foreign
\* key of its own in the LiveModel, also when two columns reference the same table.
C8_OneConstraintPerColumn ==
    (run = 1 /\ pc = "returned") =>
        \A w \in Range(Work(model, 1, 1)) : \A c \in FkColumns(w) :
            /\ Cardinality(FkStatements(model[w[1]].schema_name,
                                        model[w[1]].tables[w[2]].table_name, c.name)) = 1
            /\ c.name \in DOMAIN live[model[w[1]].schema_name]
                                     [model[w[1]].tables[w[2]].table_name].fks

\* C9: the constraint name of every emitted foreign key is
\* fk_<schema>_<table>_<targetSchema>_<targetTable>_<column>.
C9_ConstraintName ==
    \A st \in Emitted(DOMAIN plans, "ADD FOREIGN KEY") :
        st.name = "fk_" \o st.s \o "_" \o st.t \o "_" \o st.ref_s \o "_" \o st.ref_t
                        \o "_" \o st.c

\* C10: an invocation commits at most once and only after migrate returned success,
\* the commit makes the transaction's database the committed one, and when the
\* invocation ends with an error the committed database is what it was: no
\* statement of the failed migration persists.
C10_CommitOnlyOnSuccess ==
    /\ [](commits <= 1)
    /\ []((pc = "done" /\ result.state = "err") => (commits = 0 /\ txdb = committed))
    /\ [][committed' # committed =>
             (pc = "returned" /\ result.state = "ok" /\ commits = 0 /\ commits' = 1
              /\ committed' = txdb /\ result' = result)]_vars
    /\ [][commits' > commits => (pc = "returned" /\ result.state = "ok")]_vars

\* a migration whose first table was executed and whose later statement failed has
\* ended with an error, with the committed database still empty
C10_Witness ==
    /\ pc = "done"
    /\ run = 1
    /\ result.state = "err"
    /\ result.err = "execute"
    /\ \E e, f \in Range(executed) : e.ok /\ e.pass = "table" /\ ~f.ok /\ f.t # e.t
    /\ committed = EmptyDb
    /\ txdb = EmptyDb

\* the kinds of statement of the batches Table::deploy builds, in the order of the
\* list it hands on, and of the batch Table::deploy_fk builds
TableBatchKinds ==
    <<{"CREATE SCHEMA", "CREATE TABLE", "ADD COLUMN", "ALTER COLUMN TYPE", "OWNER TO",
       "CREATE TRIGGER", "DROP TRIGGER", "DROP CONSTRAINT", "ADD PRIMARY KEY"},
      {"COMMENT ON COLUMN", "COMMENT ON TABLE"},
      {"CREATE INDEX", "DROP INDEX"},
      {"GRANT", "REVOKE"},
      {"INSERT"}>>
FkBatchKinds == <<{"ADD FOREIGN KEY"}>>

\* the plannings of this run that returned no planner error, as indices of plans
PlannedOk ==
    Ascending({i \in DOMAIN plans : plans[i].run = run /\ ~IsSome(plans[i].err)})

\* the tables of the two passes in the order migrate visits them
Visits ==
    [n \in DOMAIN Work(model, 1, 1) |->
        <<"table", model[Work(model, 1, 1)[n][1]].schema_name,
          model[Work(model, 1, 1)[n][1]].tables[Work(model, 1, 1)[n][2]].table_name>>]
    \o [n \in DOMAIN Work(model, 1, 1) |->
        <<"fk", model[Work(model, 1, 1)[n][1]].schema_name,
          model[Work(model, 1, 1)[n][1]].tables[Work(model, 1, 1)[n][2]].table_name>>]

\* C11: with a dry-run sink no batch is executed and the database stays as it was;
\* every planned table's batches are handed to the sink, five batches (table DDL,
\* comments, indexes, grants, seed data) in the table pass and one (foreign keys)
\* in the foreign-key pass, for every non-template table in the order of the two
\* passes; an error of the sink ends the migration with that error.
C11_DryRunSink ==
    sink =>
        /\ executed = <<>>
        /\ txdb = EmptyDb
        /\ committed = EmptyDb
        /\ Len(sunk) = Len(PlannedOk)
        /\ \A n \in DOMAIN sunk :
              /\ sunk[n].pass = plans[PlannedOk[n]].pass
              /\ sunk[n].s = plans[PlannedOk[n]].s
              /\ sunk[n].t = plans[PlannedOk[n]].t
              /\ sunk[n].batches = plans[PlannedOk[n]].batches
              /\ Len(sunk[n].batches) = IF sunk[n].pass = "table" THEN 5 ELSE 1
              /\ \A b \in DOMAIN sunk[n].batches : \A st \in Range(sunk[n].batches[b]) :
                    st.k \in (IF sunk[n].pass = "table" THEN TableBatchKinds
                                                       ELSE FkBatchKinds)[b]
              /\ <<sunk[n].pass, sunk[n].s, sunk[n].t>> = Visits[n]
              /\ ~sunk[n].ok =>
                    (n = Len(sunk) /\ pc \in {"failed", "done"} /\ result = Err("sink"))
        /\ pc = "returned" => Len(sunk) = Len(Visits)
        /\ (pc \in {"failed", "done"} /\ result.state = "err" /\ sunk # <<>>
               /\ result.err = "sink") => ~sunk[Len(sunk)].ok

\* a dry run of two tables and a foreign key returned: the sink took the batches of
\* both passes, the foreign key among them
C11_Witness ==
    /\ sink
    /\ pc = "returned"
    /\ Len(sunk) = 4
    /\ \E n \in DOMAIN sunk : sunk[n].pass = "table" /\ sunk[n].batches[1] # <<>>
    /\ \E n \in DOMAIN sunk : sunk[n].pass = "fk" /\ sunk[n].batches[1] # <<>>

\* the tables for which a statement was executed in this run, as <<schema, table>>
ExecutedTables ==
    {<<executed[i].s, executed[i].t>> :
        i \in {j \in DOMAIN executed : executed[j].run = run /\ executed[j].ok}}

\* C12: the value migrate returns is the number of distinct tables for which at
\* least one statement was executed.
C12_ReturnsModifiedTables ==
    (pc = "returned" /\ result.state = "ok") => result.cnt = Cardinality(ExecutedTables)

\* the table of the YAML model a planning is about, and its column names and its
\* primary-key column names in the order of declaration
ModelTable(s, t) ==
    CHOOSE T \in UNION {Range(model[si].tables) : si \in {j \in DOMAIN model :
                                                         model[j].schema_name = s}} :
        T.table_name = t
Declared(T) == [j \in DOMAIN T.columns |-> T.columns[j].name]
IsPkName(T, n) == \E j \in DOMAIN T.columns : T.columns[j].name = n /\ T.columns[j].pk
RECURSIVE PkOf(_, _)
PkOf(T, names) ==
    IF names = <<>> THEN <<>>
    ELSE (IF IsPkName(T, Head(names)) THEN <<Head(names)>> ELSE <<>>) \o PkOf(T, Tail(names))
DeclaredPk(T) == PkOf(T, Declared(T))

\* the column lists of one statement of a planning of the table T follow T's
\* declaration order
InDeclaredOrder(st, T) ==
    /\ st.k = "CREATE TABLE" =>
          /\ [j \in DOMAIN st.columns |-> st.columns[j].name] = Declared(T)
          /\ st.primary_key # <<>> => st.primary_key = DeclaredPk(T)
    /\ st.k = "ADD PRIMARY KEY" => st.columns = DeclaredPk(T)
    /\ st.k = "INSERT" =>
          /\ Len(st.names) = Len(st.vals)
          /\ st.vals \in Range(T.data)
          /\ \A j \in DOMAIN st.vals : st.names[j] = Declared(T)[j]

\* C15: the column lists the table planner emits follow the declaration order of
\* the table's columns as the model holds them after template merging: the
\* columns of CREATE TABLE, the columns of a composite PRIMARY KEY and of ADD
\* PRIMARY KEY, and the columns of each seed INSERT, value i with column i.
C15_OrderStability ==
    \A i \in PlansOf(run, "table") : \A st \in Range(Statements(plans[i])) :
        InDeclaredOrder(st, ModelTable(plans[i].s, plans[i].t))

\* the second run of a table with a primary key of three columns, two of them
\* after a column that is not in the key, with seed rows: the first run created
\* it with that key, the second adds the key again and inserts the rows
C15_Witness ==
    /\ run = 2
    /\ \E st \in Emitted(PlansOf(1, "table"), "CREATE TABLE") :
          Len(st.primary_key) = 3 /\ Len(st.columns) = 5
    /\ \E st \in Emitted(PlansOf(2, "table"), "ADD PRIMARY KEY") : Len(st.columns) = 3
    /\ \E st \in Emitted(PlansOf(2, "table"), "INSERT") : Len(st.names) = 5


\* --------------------------------------------------------------------------
\* Properties of the planner on an existing table (specification SpecPlan)
\* --------------------------------------------------------------------------

\* the table Table::deploy is called for next, its schema and its LiveModel entry
NextSchema == model[Work(model, 1, 1)[step][1]].schema_name
NextTable == model[Work(model, 1, 1)[step][1]].tables[Work(model, 1, 1)[step][2]]
LiveTable == live[NextSchema][NextTable.table_name]

\* Table::deploy is about to plan a table the LiveModel holds
OnExisting ==
    /\ pc = "tables"
    /\ step <= Len(Work(model, 1, 1))
    /\ NextSchema \in DOMAIN live
    /\ NextTable.table_name \in DOMAIN live[NextSchema]

\* the plan the call made, and the table's LiveModel entry as the call left it
NewPlan == plans'[Len(plans')]
NewLiveTable == live'[NextSchema][NextTable.table_name]

\* the statements of the kinds K the call planned
Planned(K) == {st \in Range(Statements(NewPlan)) : st.k \in K}

\* the columns of the table that the LiveModel holds, and how the classifier
\* classifies the change from the live type to the YAML type
CommonColumns == {c \in Range(NextTable.columns) : c.name \in DOMAIN LiveTable.columns}
Classified(c) ==
    analyze_type_change(to_lowercase(LiveTable.columns[c.name].column_type),
                        to_lowercase(c.column_type))

\* what the diff of the table against the LiveModel holds: columns whose type is
\* reduced or incompatible, triggers that are replaced (none when the triggers
\* section is excluded), indexes that changed, a primary key that changed, and
\* grantees that lose a privilege
CutColumns == {c.name : c \in {d \in CommonColumns :
                                  Classified(d) \in {"SizeReduction", "Incompatible"}}}
ReplacedTriggers ==
    IF options.exclude_triggers THEN {}
    ELSE {dt.name : dt \in {d \in Range(NextTable.triggers) :
                               /\ d.name \in DOMAIN LiveTable.triggers
                               /\ ~matches_pg_trigger(d, LiveTable.triggers[d.name])}}
DesiredIndexes ==
    {[name |-> actual_index_name(g, index_groups(NextTable.columns, EmptyMap, 1)[g],
                                 NextTable.table_name),
      desired |-> index_groups(NextTable.columns, EmptyMap, 1)[g]] :
        g \in DOMAIN index_groups(NextTable.columns, EmptyMap, 1)}
ChangedIndexes ==
    {x.name : x \in {d \in DesiredIndexes :
                        /\ d.name \in DOMAIN LiveTable.indexes
                        /\ ~index_matches(d.desired, LiveTable.indexes[d.name])}}
PrimaryKeyChanged ==
    get_primary_key_columns(NextTable) #
        (IF IsSome(LiveTable.primary_key) THEN LiveTable.primary_key[1].columns ELSE <<>>)
RevokedGrantees ==
    {g \in DOMAIN LiveTable.grants :
        LiveTable.grants[g].privileges \
            (IF g \in DOMAIN desired_grants(NextTable.grant)
             THEN desired_grants(NextTable.grant)[g] ELSE {}) # {}}

\* C2: when a table was planned without error, planning it a second time over the
\* LiveModel the first planning left plans without error and emits no column,
\* owner, trigger, primary-key, index or grant statement, and the second
\* foreign-key planning emits no foreign-key statement.
C2_MirrorConsistency ==
    /\ \A i \in PlansOf(2, "table") :
          /\ ~IsSome(plans[i].err)
          /\ plans[i].batches[1] = <<>>
          /\ plans[i].batches[3] = <<>>
          /\ plans[i].batches[4] = <<>>
    /\ \A i \in PlansOf(2, "fk") : plans[i].batches[1] = <<>>

\* the five knobs of the destructive changes are false
KnobsFalse ==
    /\ ~options.with_size_cut
    /\ ~options.with_index_drop
    /\ ~options.with_trigger_drop
    /\ ~options.with_revoke
    /\ ~options.without_failfast

\* C3: with the five knobs false, planning an existing table whose diff holds a
\* size reduction, an incompatible type change, a replaced trigger, a changed
\* index, a changed primary key or a revocation returns an error that names one of
\* those objects and its SQL, and nothing of the table is executed or handed to
\* the sink.
C3_NoDestructiveDefault ==
    [][(/\ OnExisting
        /\ KnobsFalse
        /\ \/ CutColumns # {}
           \/ ReplacedTriggers # {}
           \/ ChangedIndexes # {}
           \/ PrimaryKeyChanged
           \/ RevokedGrantees # {})
       => /\ pc' = "failed"
          /\ result'.state = "err"
          /\ IsSome(NewPlan.err)
          /\ NewPlan.err[1].kind \in
                {"size_cut", "incompatible", "trigger", "primary_key", "index", "revoke"}
          /\ NewPlan.err[1].object \in
                CutColumns \cup ReplacedTriggers \cup ChangedIndexes \cup RevokedGrantees
                \cup (IF PrimaryKeyChanged THEN {NextTable.table_name} ELSE {})
          /\ NewPlan.err[1].sql # <<>>
          /\ NewPlan.batches = <<>>
          /\ executed' = executed
          /\ sunk' = sunk
          /\ txdb' = txdb]_vars

\* a planning under the default options ended with the error of a revocation, the
\* last change the planner looks for, with nothing executed and nothing handed over
C3_Witness ==
    /\ pc = "failed"
    /\ KnobsFalse
    /\ plans # <<>>
    /\ IsSome(plans[Len(plans)].err)
    /\ plans[Len(plans)].err[1].kind = "revoke"
    /\ executed = <<>>
    /\ sunk = <<>>

\* C4: with withoutFailfast true, planning an existing table succeeds, and for
\* every destructive change whose knob is false no statement of the affected
\* object is planned (no ALTER COLUMN TYPE of the column, no DROP or CREATE TRIGGER
\* of the trigger, no DROP or CREATE INDEX of the index, no primary-key statement,
\* no REVOKE from the grantee) and the object's LiveModel entry stays as it was.
C4_GatedSkip ==
    [][(OnExisting /\ options.without_failfast)
       => /\ ~IsSome(NewPlan.err)
          /\ ~options.with_size_cut =>
                \A c \in CutColumns :
                   /\ \A st \in Planned({"ALTER COLUMN TYPE"}) : st.c # c
                   /\ NewLiveTable.columns[c] = LiveTable.columns[c]
          /\ ~options.with_trigger_drop =>
                \A n \in ReplacedTriggers :
                   /\ \A st \in Planned({"DROP TRIGGER", "CREATE TRIGGER"}) : st.name # n
                   /\ NewLiveTable.triggers[n] = LiveTable.triggers[n]
          /\ ~options.with_index_drop =>
                \A n \in ChangedIndexes :
                   /\ \A st \in Planned({"DROP INDEX", "CREATE INDEX"}) : st.name # n
                   /\ NewLiveTable.indexes[n] = LiveTable.indexes[n]
          /\ (~options.with_index_drop /\ PrimaryKeyChanged) =>
                /\ Planned({"DROP CONSTRAINT", "ADD PRIMARY KEY"}) = {}
                /\ NewLiveTable.primary_key = LiveTable.primary_key
          /\ ~options.with_revoke =>
                \A g \in RevokedGrantees :
                   /\ \A st \in Planned({"REVOKE"}) : st.grantee # g
                   /\ NewLiveTable.grants[g] = LiveTable.grants[g]]_vars

\* the gated skip of everything but a changed index
C4_GatedSkipButIndex ==
    [][(OnExisting /\ options.without_failfast)
       => /\ ~IsSome(NewPlan.err)
          /\ ~options.with_size_cut =>
                \A c \in CutColumns :
                   /\ \A st \in Planned({"ALTER COLUMN TYPE"}) : st.c # c
                   /\ NewLiveTable.columns[c] = LiveTable.columns[c]
          /\ ~options.with_trigger_drop =>
                \A n \in ReplacedTriggers :
                   /\ \A st \in Planned({"DROP TRIGGER", "CREATE TRIGGER"}) : st.name # n
                   /\ NewLiveTable.triggers[n] = LiveTable.triggers[n]
          /\ (~options.with_index_drop /\ PrimaryKeyChanged) =>
                /\ Planned({"DROP CONSTRAINT", "ADD PRIMARY KEY"}) = {}
                /\ NewLiveTable.primary_key = LiveTable.primary_key
          /\ ~options.with_revoke =>
                \A g \in RevokedGrantees :
                   /\ \A st \in Planned({"REVOKE"}) : st.grantee # g
                   /\ NewLiveTable.grants[g] = LiveTable.grants[g]]_vars

\* the ALTER COLUMN TYPE statements the call planned for the column c, as positions
Alters(c) ==
    {n \in DOMAIN Statements(NewPlan) :
        /\ Statements(NewPlan)[n].k = "ALTER COLUMN TYPE"
        /\ Statements(NewPlan)[n].c = c.name}

\* one ALTER COLUMN TYPE of the column c to its YAML type, with or without USING
AltersOnce(c, using) ==
    /\ Cardinality(Alters(c)) = 1
    /\ \A n \in Alters(c) :
          /\ Statements(NewPlan)[n].type = c.column_type
          /\ Statements(NewPlan)[n].using = using

\* what the classification of the column c makes the call plan
TypeRule(c) ==
    CASE Classified(c) \in {"SizeExtension", "Compatible"} -> AltersOnce(c, FALSE)
      [] Classified(c) = "SizeReduction" ->
            IF options.with_size_cut THEN AltersOnce(c, FALSE) ELSE Alters(c) = {}
      [] Classified(c) = "Incompatible" ->
            IF options.with_size_cut THEN AltersOnce(c, TRUE) ELSE Alters(c) = {}
      [] Classified(c) = "NoChange" -> Alters(c) = {}

\* C5, as stated: every planning of an existing table emits, for every column the
\* LiveModel holds, the ALTER COLUMN TYPE its classification asks for.
C5_TypeRuleAlways ==
    [][OnExisting => \A c \in CommonColumns : TypeRule(c)]_vars

\* C5, amended: every planning of an existing table that returns no error emits,
\* for every column the LiveModel holds, one ALTER COLUMN TYPE when the change is a
\* SizeExtension or Compatible, one when it is a SizeReduction or an Incompatible
\* change (this one with USING) and withSizeCut is true, and none otherwise.
C5_TypeRule ==
    [][(OnExisting /\ ~IsSome(NewPlan.err)) => \A c \in CommonColumns : TypeRule(c)]_vars

\* a planning without error changed an incompatible type under withSizeCut, and a
\* planning without error extended a size without it
C5_Witness ==
    /\ plans # <<>>
    /\ ~IsSome(plans[Len(plans)].err)
    /\ \E st \in Range(Statements(plans[Len(plans)])) :
          /\ st.k = "ALTER COLUMN TYPE"
          /\ \/ st.using /\ options.with_size_cut
             \/ st.type = Varchar128 /\ ~options.with_size_cut

\* --------------------------------------------------------------------------
\* Properties of the classifier (specification SpecTypes)
\* --------------------------------------------------------------------------

\* the classifier was called and returned or panicked
Called == change # "none"

\* the laws of varchar sizes, for the call made
VarcharLaws ==
    \A a, b \in VarcharNames : \A n, m \in VarcharSizes :
        (existing_str = Sized(a, n) /\ desired_str = Sized(b, m)) =>
            /\ change = "SizeExtension" <=> m > n
            /\ change = "SizeReduction" <=> m < n
            /\ m = n => change = "NoChange"

\* C13: classify(t, t) = NoChange for every type string t, and between two varchar
\* types of sizes n and m, whichever name of the base either side uses, the
\* result is SizeExtension iff m > n, SizeReduction iff m < n, NoChange when m = n.
C13_ClassifierLaws ==
    Called =>
        /\ existing_str = desired_str => change = "NoChange"
        /\ VarcharLaws

\* the laws hold for every call that does not panic
C13_LawsUnlessPanic ==
    (Called /\ change # "Panic") =>
        /\ existing_str = desired_str => change = "NoChange"
        /\ VarcharLaws

\* C14: for every pair of type strings, malformed parentheses included, the
\* classifier returns one of the five outcomes; it never panics.
C14_ClassifierTotal == Called => change \in TypeChange

\* the laws of numeric precision and scale, for the call made
NumericScaleLaws ==
    \A a, b \in NumericNames : \A p1, p2 \in Precisions :
        /\ \A s1, s2 \in Scales :
              (existing_str = Scaled(a, p1, s1) /\ desired_str = Scaled(b, p2, s2)) =>
                  /\ s2 < s1 => change = "SizeReduction"
                  /\ (p2 = p1 /\ s2 > s1) => change = "SizeExtension"
        /\ \A s2 \in Scales :
              (existing_str = Sized(a, p1) /\ desired_str = Scaled(b, p2, s2) /\ p2 = p1) =>
                  change = "SizeExtension"

\* C20: from NUMERIC(p1,s1) to NUMERIC(p2,s2), under either name of the base, a
\* smaller scale is a SizeReduction whatever the precisions are; a larger scale
\* with the same precision, and a scale added to a type that had none, is a
\* SizeExtension.
C20_NumericScale == Called => NumericScaleLaws

\* the laws of scale hold between types of the same precision
C20_SamePrecision ==
    (Called /\ \E a, b \in NumericNames : \E p \in Precisions : \E s1, s2 \in Scales :
                  /\ existing_str \in {Scaled(a, p, s1), Sized(a, p)}
                  /\ desired_str = Scaled(b, p, s2))
        => NumericScaleLaws

\* --------------------------------------------------------------------------
\* Properties of the parser (specification SpecParse)
\* --------------------------------------------------------------------------

\* parse_yaml_schema returned Ok: model is the model it returned
ParsedOk == pc = "tables"

\* parse_yaml_schema returned an error: no model was returned
Rejected == pc = "failed" /\ result.state = "err" /\ model = <<>>

\* the characters a name is cut at
Stops == {" ", ".", ";", "\n", "\t"}

\* the text before the first of these characters, the whole text without one
Prefix(text) ==
    IF \A i \in DOMAIN text : text[i] \notin Stops THEN text
    ELSE SubSeq(text, 1, (CHOOSE i \in DOMAIN text :
                             /\ text[i] \in Stops
                             /\ \A j \in 1..(i - 1) : text[j] \notin Stops) - 1)

\* the names texts are cut to
Cut(texts) == {Join(Prefix(t)) : t \in texts}

\* the tables of the YAML document and of the model
YamlTables == UNION {Range(yaml[i].tables) : i \in DOMAIN yaml}
ModelTables == UNION {Range(model[i].tables) : i \in DOMAIN model}

\* the grantees of a grant entry, as the set of its fields that are not empty
Grantees(g, empty) ==
    {g.all, g.select, g.insert, g.update, g.delete, g.truncate, g.references, g.trigger}
        \ {empty}

\* the names of the model, by kind, and the texts of the document, by kind
SchemaNames == {model[i].schema_name : i \in DOMAIN model}
TableNames == {T.table_name : T \in ModelTables}
ColumnNames == UNION {{c.name : c \in Range(T.columns)} : T \in ModelTables}
TriggerNames == UNION {{t.name : t \in Range(T.triggers)} : T \in ModelTables}
GranteeNames == UNION {UNION {Grantees(g, "") : g \in Range(T.grant)} : T \in ModelTables}
SchemaTexts == {yaml[i].schema_name : i \in DOMAIN yaml}
TableTexts == {T.table_name : T \in YamlTables}
ColumnTexts == UNION {{c.name : c \in Range(T.columns)} : T \in YamlTables}
TriggerTexts == UNION {{t.name : t \in Range(T.triggers)} : T \in YamlTables}
GranteeTexts == UNION {UNION {Grantees(g, <<>>) : g \in Range(T.grant)} : T \in YamlTables}

\* C16: in every model parse_yaml_schema returns, every schema name, table name,
\* column name, trigger name and grantee is a text of the document of that kind
\* cut before its first space, dot, semicolon, newline or tab.
C16_SafeNames ==
    ParsedOk =>
        /\ SchemaNames \subseteq Cut(SchemaTexts)
        /\ TableNames \subseteq Cut(TableTexts)
        /\ ColumnNames \subseteq Cut(ColumnTexts)
        /\ TriggerNames \subseteq Cut(TriggerTexts)
        /\ GranteeNames \subseteq Cut(GranteeTexts)

\* the beginnings of the texts that hold none of these characters, as names
StopFree ==
    {Join(SubSeq(t, 1, k)) : <<t, k>> \in
        {x \in (Texts \cup {<<"id">>}) \X (0..3) :
            x[2] <= Len(x[1]) /\ \A i \in 1..x[2] : x[1][i] \notin Stops}}

\* the names read through safe_sql_name hold none of these characters
C16_ColumnsTriggersGrantees ==
    ParsedOk => (ColumnNames \cup TriggerNames \cup GranteeNames) \subseteq StopFree

\* no two elements of a sequence are the same
Distinct(names) == \A i, j \in DOMAIN names : i # j => names[i] # names[j]

\* the document declares a table twice in one schema (in one entry or in two
\* entries of one schemaName), a column twice in a table, or a trigger twice
DeclaresDuplicate ==
    \/ \E i, j \in DOMAIN yaml : \E a \in DOMAIN yaml[i].tables : \E b \in DOMAIN yaml[j].tables :
          /\ <<i, a>> # <<j, b>>
          /\ yaml[i].schema_name = yaml[j].schema_name
          /\ yaml[i].tables[a].table_name = yaml[j].tables[b].table_name
    \/ \E T \in YamlTables :
          \/ ~Distinct([i \in DOMAIN T.columns |-> T.columns[i].name])
          \/ \E i, j \in DOMAIN T.triggers :
                i # j /\ T.triggers[i].name = T.triggers[j].name /\ T.triggers[i].name # <<>>

C17_RejectedDuplicate == Rejected /\ DeclaresDuplicate

\* the name a grant entry goes by: its grantees
grantee(g) == Grantees(g, "")

name_of(e) == e.name

\* the entries of a template first, in the template's order, each replaced by the
\* own entry of its name when there is one, then the own entries the template
\* does not define
TemplateFirst(tpl, own, Key(_)) ==
    [i \in DOMAIN tpl |->
        IF \E j \in DOMAIN own : Key(own[j]) = Key(tpl[i])
        THEN own[CHOOSE j \in DOMAIN own : Key(own[j]) = Key(tpl[i])]
        ELSE tpl[i]]
    \o SelectSeq(own, LAMBDA e : \A i \in DOMAIN tpl : Key(tpl[i]) # Key(e))

\* the template's field only when the own field is empty
Inherited(own, tpl) == IF own = "" THEN tpl ELSE own

\* the tables of the document that use one template, as <<entry, table>>
Consumers ==
    {x \in UNION {{<<i, a>> : a \in DOMAIN yaml[i].tables} : i \in DOMAIN yaml} :
        Len(yaml[x[1]].tables[x[2]].use_templates) = 1}

\* the table of the model read from a table of the document, the table as
\* Table::new reads it, and the template it names, in the model
Resolved(x) ==
    CHOOSE T \in ModelTables : T.table_name = Join(yaml[x[1]].tables[x[2]].table_name)
Own(x) == Table_new(yaml[x[1]].tables[x[2]])
TemplateOf(x) ==
    CHOOSE T \in ModelTables : T.table_name = Join(yaml[x[1]].tables[x[2]].use_templates[1])

ColumnsMerged(x) ==
    Resolved(x).columns = TemplateFirst(TemplateOf(x).columns, Own(x).columns, name_of)
TriggersMerged(x) ==
    Resolved(x).triggers = TemplateFirst(TemplateOf(x).triggers, Own(x).triggers, name_of)
GrantsMerged(x) ==
    Resolved(x).grant = TemplateFirst(TemplateOf(x).grant, Own(x).grant, grantee)
ScalarsInherited(x) ==
    /\ Resolved(x).owner = Inherited(Own(x).owner, TemplateOf(x).owner)
    /\ Resolved(x).description = Inherited(Own(x).description, TemplateOf(x).description)
    /\ Resolved(x).sql = Inherited(Own(x).sql, TemplateOf(x).sql)
    /\ Resolved(x).constraint = Inherited(Own(x).constraint, TemplateOf(x).constraint)

\* C18: after template resolution, the columns, triggers and grants of a table
\* that uses a template are the template's entries first, in template order, an
\* entry replaced by the table's own entry of the same name (column name, trigger
\* name, grantee), followed by the table's own entries the template does not
\* define; owner, description, create-suffix SQL and table-level constraint are
\* the template's only when the table's own field is empty.
C18_TemplateMerge ==
    ParsedOk =>
        \A x \in Consumers :
            ColumnsMerged(x) /\ TriggersMerged(x) /\ GrantsMerged(x) /\ ScalarsInherited(x)

\* what holds of the grants: the template's entries, then all the own entries,
\* whatever their grantees; columns, triggers and scalar fields are as C18 says
C18_GrantsAppended ==
    ParsedOk =>
        \A x \in Consumers :
            /\ ColumnsMerged(x) /\ TriggersMerged(x) /\ ScalarsInherited(x)
            /\ Resolved(x).grant = TemplateOf(x).grant \o Own(x).grant

\* a table that overrides a column and a trigger of its template, adds one of
\* each, and leaves some scalar fields empty, was resolved
C18_Witness ==
    /\ ParsedOk
    /\ \E x \in Consumers :
          /\ [i \in DOMAIN Resolved(x).columns |-> Resolved(x).columns[i].name]
                = <<"id", "created", "title">>
          /\ Resolved(x).columns[2].column_type # TemplateOf(x).columns[2].column_type
          /\ [i \in DOMAIN Resolved(x).triggers |-> Resolved(x).triggers[i].name]
                = <<"p", "q", "r">>
          /\ Resolved(x).triggers[1].event = "after update"
          /\ Resolved(x).owner = "bob"
          /\ Resolved(x).description = "base rows"

\* --------------------------------------------------------------------------
\* Execution of the batches of a table
\* --------------------------------------------------------------------------

\* the batch_execute calls of Table::deploy for the planning P, in the order made
CallsOf(P) ==
    SelectSeq(executed,
              LAMBDA e : e.run = P.run /\ e.pass = "table" /\ e.s = P.s /\ e.t = P.t)

\* the calls are the batches of P that are not empty, one call each, in the order
\* of the phases, up to the first that failed
InPhaseOrder(P, calls) ==
    /\ \A i \in DOMAIN calls :
          /\ calls[i].batch \in NonEmpty(P.batches)
          /\ calls[i].sql = P.batches[calls[i].batch]
          /\ \A a \in DOMAIN calls[i].sql :
                calls[i].sql[a].k \in TableBatchKinds[calls[i].batch]
          /\ \A a, b \in DOMAIN calls[i].sql :
                (calls[i].sql[b].k = "CREATE SCHEMA" /\ calls[i].sql[a].k # "CREATE SCHEMA")
                    => b < a
          /\ \A j \in DOMAIN calls : i < j => calls[i].batch < calls[j].batch
          /\ ~calls[i].ok => i = Len(calls)
    /\ IF P.failed
       THEN /\ calls # <<>>
            /\ ~calls[Len(calls)].ok
            /\ {calls[i].batch : i \in DOMAIN calls}
                 = {j \in NonEmpty(P.batches) : j <= calls[Len(calls)].batch}
       ELSE /\ \A i \in DOMAIN calls : calls[i].ok
            /\ {calls[i].batch : i \in DOMAIN calls} = NonEmpty(P.batches)

\* the call that failed is the last call made and its planning the last planning;
\* the migration has ended with the error that names the phase and the SQL text
AbortsAtFailure ==
    \A n \in DOMAIN executed :
        (~executed[n].ok /\ executed[n].pass = "table") =>
            /\ n = Len(executed)
            /\ executed[n].run = run
            /\ plans # <<>>
            /\ plans[Len(plans)].failed
            /\ <<plans[Len(plans)].run, plans[Len(plans)].pass, plans[Len(plans)].s,
                  plans[Len(plans)].t>>
                 = <<run, "table", executed[n].s, executed[n].t>>
            /\ pc \in {"failed", "done"}
            /\ result.state = "err"
            /\ result.text = <<Phases[executed[n].batch], executed[n].sql>>

\* C19: without a dry-run sink, the batches of a modified table that are not
\* empty are executed one at a time in the order table DDL (schema DDL first),
\* comments, indexes, grants, seed inserts; the first batch that fails ends the
\* migration with an error that names its phase and its SQL text, no later batch
\* and no later table is executed; without_failfast has no part in it.
C19_BatchExecution ==
    /\ \A i, j \in DOMAIN Phases : i # j => Phases[i] # Phases[j]
    /\ \A n \in DOMAIN plans :
          plans[n].pass = "table" =>
              IF sink \/ ~plans[n].exec \/ IsSome(plans[n].err)
              THEN CallsOf(plans[n]) = <<>>
              ELSE InPhaseOrder(plans[n], CallsOf(plans[n]))
    /\ AbortsAtFailure

\* under without_failfast a table's DDL batch was executed, a later batch of the
\* table failed, and the migration has ended with that error before it came to
\* the tables that follow
C19_Witness ==
    /\ options.without_failfast
    /\ pc = "done"
    /\ result.err = "execute"
    /\ executed # <<>>
    /\ LET f == executed[Len(executed)]
       IN  /\ ~f.ok /\ f.pass = "table" /\ f.batch > 1
           /\ \E e \in Range(executed) : e.ok /\ e.t = f.t /\ e.run = f.run /\ e.batch = 1
           /\ result.text = <<Phases[f.batch], f.sql>>
    /\ Cardinality({n \in DOMAIN plans : plans[n].run = run}) < Len(Work(model, 1, 1))

\* the same under fail-fast
C19_WitnessFailfast ==
    /\ ~options.without_failfast
    /\ pc = "done"
    /\ result.err = "execute"
    /\ executed # <<>>
    /\ ~executed[Len(executed)].ok
    /\ executed[Len(executed)].pass = "table"
    /\ executed[Len(executed)].batch > 1

\* --------------------------------------------------------------------------
\* The classifier on two different base types
\* --------------------------------------------------------------------------

\* the call made is on two types of different normalised bases that are not a
\* listed promotion
DifferentBases ==
    /\ Called
    /\ change # "Panic"
    /\ normalize_base(parse_type_size(existing_str).base)
         # normalize_base(parse_type_size(desired_str).base)
    /\ ~is_safe_promotion(normalize_base(parse_type_size(existing_str).base),
                          normalize_base(parse_type_size(desired_str).base))

\* the entry of the existing type in the minLen table, None without one
MinLen ==
    min_varchar_size(normalize_base(parse_type_size(existing_str).base),
                     parse_type_size(existing_str).size)

DesiredBase == normalize_base(parse_type_size(desired_str).base)
DesiredSize == parse_type_size(desired_str).size

\* C21: for two types of different normalised bases that are not a listed
\* promotion, the result is Compatible whenever the desired type is text,
\* whatever the existing type (json, jsonb and types without a minLen entry
\* included); it is Compatible for a desired varchar(n) exactly when the existing
\* type has a minLen entry and n >= minLen; every other pair is Incompatible.
C21_DifferentBases ==
    DifferentBases =>
        change = IF DesiredBase = <<"text">> THEN "Compatible"
                 ELSE IF /\ DesiredBase = <<"varchar">>
                         /\ IsSome(DesiredSize)
                         /\ IsSome(MinLen)
                         /\ DesiredSize[1] >= MinLen[1] THEN "Compatible"
                 ELSE "Incompatible"

\* what holds: text, and varchar without a size, are Compatible exactly when the
\* existing type has a minLen entry; varchar(n) is as C21 says
C21_TextNeedsMinLen ==
    DifferentBases =>
        change = IF DesiredBase = <<"text">> THEN
                     (IF IsSome(MinLen) THEN "Compatible" ELSE "Incompatible")
                 ELSE IF DesiredBase = <<"varchar">> /\ ~IsSome(DesiredSize) THEN
                     (IF IsSome(MinLen) THEN "Compatible" ELSE "Incompatible")
                 ELSE IF /\ DesiredBase = <<"varchar">>
                         /\ IsSome(MinLen)
                         /\ DesiredSize[1] >= MinLen[1] THEN "Compatible"
                 ELSE "Incompatible"

\* the part of C21 on a desired text alone
C21_ToText == (DifferentBases /\ DesiredBase = <<"text">>) => change = "Compatible"

\* the part of C21 on a desired varchar(n) alone
C21_ToSizedVarchar ==
    (DifferentBases /\ DesiredBase = <<"varchar">> /\ IsSome(DesiredSize)) =>
        (change = "Compatible" <=> (IsSome(MinLen) /\ DesiredSize[1] >= MinLen[1]))

\* --------------------------------------------------------------------------
\* The grants of an existing table
\* --------------------------------------------------------------------------

\* the privileges the all field stands for
TablePrivileges ==
    {"SELECT", "INSERT", "UPDATE", "DELETE", "TRUNCATE", "REFERENCES", "TRIGGER"}

\* the privileges the grant entries of the table give the grantee g
Wanted(g) ==
    UNION {(IF e.all = g THEN TablePrivileges ELSE {})
           \cup (IF e.select = g THEN {"SELECT"} ELSE {})
           \cup (IF e.insert = g THEN {"INSERT"} ELSE {})
           \cup (IF e.update = g THEN {"UPDATE"} ELSE {})
           \cup (IF e.delete = g THEN {"DELETE"} ELSE {})
           \cup (IF e.truncate = g THEN {"TRUNCATE"} ELSE {})
           \cup (IF e.references = g THEN {"REFERENCES"} ELSE {})
           \cup (IF e.trigger = g THEN {"TRIGGER"} ELSE {}) : e \in Range(NextTable.grant)}

\* the privileges the LiveModel holds for the grantee g when the call starts
Held(g) == IF g \in DOMAIN LiveTable.grants THEN LiveTable.grants[g].privileges ELSE {}

\* the grantees of the YAML table and of the LiveModel table
AllGrantees ==
    UNION {Grantees(e, "") : e \in Range(NextTable.grant)} \cup DOMAIN LiveTable.grants

\* the privilege sets of the statements of kind k the call planned for g, one for
\* each statement
PlannedFor(k, g) ==
    LET at == {n \in DOMAIN Statements(NewPlan) :
                  Statements(NewPlan)[n].k = k /\ Statements(NewPlan)[n].grantee = g}
    IN  [n \in at |-> Statements(NewPlan)[n].privileges]

\* one statement with the privileges P, none when P is empty
OneFor(k, g, P) ==
    IF P = {} THEN DOMAIN PlannedFor(k, g) = {}
    ELSE /\ Cardinality(DOMAIN PlannedFor(k, g)) = 1
         /\ \A n \in DOMAIN PlannedFor(k, g) : PlannedFor(k, g)[n] = P

\* GRANT of what is wanted and not held, REVOKE of what is held and not wanted
\* when with_revoke is true and no REVOKE when it is false; with with_revoke the
\* LiveModel grants of the table are the wanted ones afterwards
GrantRule ==
    /\ \A st \in Planned({"GRANT", "REVOKE"}) : st.grantee \in AllGrantees
    /\ \A g \in AllGrantees :
          /\ OneFor("GRANT", g, Wanted(g) \ Held(g))
          /\ OneFor("REVOKE", g, IF options.with_revoke THEN Held(g) \ Wanted(g) ELSE {})
    /\ options.with_revoke =>
          /\ DOMAIN NewLiveTable.grants = {g \in AllGrantees : Wanted(g) # {}}
          /\ \A g \in DOMAIN NewLiveTable.grants :
                NewLiveTable.grants[g].privileges = Wanted(g)

\* C22, as stated: every planning of an existing table emits GRANT for exactly
\* the desired privileges a grantee lacks in the LiveModel and, when withRevoke
\* is true, REVOKE for exactly the live privileges that are not desired.
C22_GrantRuleAlways == [][OnExisting => GrantRule]_vars

\* C22, amended: every planning of an existing table that returns no error emits
\* GRANT for exactly the desired privileges a grantee lacks in the LiveModel
\* (all standing for the seven table privileges) and REVOKE for exactly the live
\* privileges that are not desired, those of a grantee the YAML does not name
\* included; REVOKEs are emitted only when withRevoke is true, and then the
\* LiveModel grants of the table are the desired grants afterwards.
C22_GrantRule == [][(OnExisting /\ ~IsSome(NewPlan.err)) => GrantRule]_vars

\* a planning without error granted the privileges that all stands for and the
\* grantee lacked, and revoked nothing from it
C22_Witness ==
    /\ plans # <<>>
    /\ ~IsSome(plans[Len(plans)].err)
    /\ \E st \in Range(Statements(plans[Len(plans)])) :
          /\ st.k = "GRANT"
          /\ st.grantee = "reader"
          /\ st.privileges = TablePrivileges \ {"SELECT"}
    /\ \E st \in Range(Statements(plans[Len(plans)])) :
          st.k = "GRANT" /\ st.grantee = "writer" /\ st.privileges = {"SELECT", "UPDATE"}

\* a planning without error under with_revoke revoked the privileges of a grantee
\* the YAML does not name
C22_WitnessRevoke ==
    /\ plans # <<>>
    /\ options.with_revoke
    /\ ~IsSome(plans[Len(plans)].err)
    /\ \E st \in Range(Statements(plans[Len(plans)])) :
          st.k = "REVOKE" /\ st.grantee = "reader" /\ st.privileges = {"SELECT"}
    /\ \E st \in Range(Statements(plans[Len(plans)])) :
          st.k = "GRANT" /\ st.grantee = "writer"

\* --------------------------------------------------------------------------
\* The indexes of an existing table
\* --------------------------------------------------------------------------

\* a LiveModel index is equivalent to a desired one: same uniqueness, same method
\* (btree when none is given), the same columns in the same order, each with the
\* same sort order (ASC when none is given), the same nulls (LAST for ASC and
\* FIRST for DESC when none is given) and the same collation
SortOrder(c) == IF c.order = "" THEN "ASC" ELSE c.order
NullsOrder(c) ==
    IF c.nulls # "" THEN c.nulls ELSE IF SortOrder(c) = "DESC" THEN "FIRST" ELSE "LAST"
Equivalent(d, e) ==
    /\ d.is_unique = e.is_unique
    /\ (IF d.using = "" THEN "btree" ELSE d.using) = e.index_method
    /\ [i \in DOMAIN d.columns |-> d.columns[i].column_name]
         = [i \in DOMAIN e.columns |-> e.columns[i].column_name]
    /\ \A i \in DOMAIN d.columns :
          /\ SortOrder(d.columns[i]) = e.columns[i].order
          /\ NullsOrder(d.columns[i]) = e.columns[i].nulls
          /\ d.columns[i].collate = e.columns[i].collation

\* the positions of the statements of kind k the call planned for the index n
IndexStatements(k, n) ==
    {i \in DOMAIN Statements(NewPlan) :
        Statements(NewPlan)[i].k = k /\ Statements(NewPlan)[i].name = n}

\* what the call plans for the desired index d
IndexRule(d) ==
    /\ d.name \notin DOMAIN LiveTable.indexes =>
          /\ Cardinality(IndexStatements("CREATE INDEX", d.name)) = 1
          /\ IndexStatements("DROP INDEX", d.name) = {}
    /\ (d.name \in DOMAIN LiveTable.indexes
          /\ Equivalent(d.desired, LiveTable.indexes[d.name])) =>
          /\ IndexStatements("CREATE INDEX", d.name) = {}
          /\ IndexStatements("DROP INDEX", d.name) = {}
    /\ (d.name \in DOMAIN LiveTable.indexes
          /\ ~Equivalent(d.desired, LiveTable.indexes[d.name])
          /\ options.with_index_drop) =>
          /\ Cardinality(IndexStatements("CREATE INDEX", d.name)) = 1
          /\ Cardinality(IndexStatements("DROP INDEX", d.name)) = 1
          /\ \A i \in IndexStatements("DROP INDEX", d.name) :
                i + 1 \in IndexStatements("CREATE INDEX", d.name)
    /\ IndexStatements("CREATE INDEX", d.name) # {} =>
          /\ d.name \in DOMAIN NewLiveTable.indexes
          /\ Equivalent(d.desired, NewLiveTable.indexes[d.name])
          /\ \A i \in IndexStatements("CREATE INDEX", d.name) :
                /\ Statements(NewPlan)[i].unique = d.desired.is_unique
                /\ Statements(NewPlan)[i].columns = d.desired.columns

\* C23, as stated: every planning of a table the LiveModel holds emits, for each
\* desired index, one CREATE INDEX when the LiveModel has no index of the name,
\* nothing when it has an equivalent one, and DROP INDEX immediately before the
\* CREATE when it has a different one and withIndexDrop is true.
C23_IndexRuleAlways == [][OnExisting => \A d \in DesiredIndexes : IndexRule(d)]_vars

\* C23, amended: every planning of a table the LiveModel holds that returns no
\* error emits, for each desired index (columns grouped by index name, "+"
\* naming it idx_<table>_<columns>), one CREATE INDEX when the LiveModel has no
\* index of the name, nothing when it has an equivalent one, and DROP INDEX IF
\* EXISTS immediately before the CREATE when it has a different one and
\* withIndexDrop is true; after an emitted CREATE the LiveModel index is
\* equivalent to the desired one.
C23_IndexRule ==
    [][(OnExisting /\ ~IsSome(NewPlan.err)) => \A d \in DesiredIndexes : IndexRule(d)]_vars

\* a planning without error dropped and created again an index whose sort order
\* changed
C23_Witness ==
    /\ plans # <<>>
    /\ options.with_index_drop
    /\ ~IsSome(plans[Len(plans)].err)
    /\ \E i \in DOMAIN Statements(plans[Len(plans)]) :
          /\ i + 1 \in DOMAIN Statements(plans[Len(plans)])
          /\ Statements(plans[Len(plans)])[i].k = "DROP INDEX"
          /\ Statements(plans[Len(plans)])[i + 1].k = "CREATE INDEX"
          /\ Statements(plans[Len(plans)])[i + 1].name = "idx_users_email"
          /\ Statements(plans[Len(plans)])[i + 1].columns[1].order = "DESC"

\* a planning without error of a table whose index the LiveModel holds, declared
\* with the defaults written out, emitted no index statement
C23_WitnessEquivalent ==
    /\ plans # <<>>
    /\ ~IsSome(plans[Len(plans)].err)
    /\ plans[Len(plans)].pass = "table"
    /\ plans[Len(plans)].batches[3] = <<>>
    /\ \E c \in Range(model[1].tables[1].columns) :
          IsSome(c.index) /\ c.index[1].using = "btree" /\ c.index[1].order = "ASC"
    /\ "idx_users_email" \in DOMAIN live["app"]["users"].indexes

\* a planning without error created an index of two columns
C23_WitnessGroup ==
    /\ plans # <<>>
    /\ ~IsSome(plans[Len(plans)].err)
    /\ \E st \in Range(Statements(plans[Len(plans)])) :
          st.k = "CREATE INDEX" /\ st.name = "by_both" /\ Len(st.columns) = 2

\* --------------------------------------------------------------------------
\* The owner of an existing table
\* --------------------------------------------------------------------------

\* the YAML owner of the table is not empty and is not the LiveModel's owner
OwnerDiffers ==
    /\ NextTable.owner # ""
    /\ IsSome(LiveTable.owner)
    /\ LiveTable.owner[1] # NextTable.owner

\* the OWNER TO statement of the table
IsOwnerTo(st) ==
    /\ st.k = "OWNER TO"
    /\ st.s = NextSchema
    /\ st.t = NextTable.table_name
    /\ st.owner = NextTable.owner

\* the planning emitted the OWNER TO statement
OwnerEmitted == \E st \in Range(Statements(NewPlan)) : IsOwnerTo(st)

\* the batches executed by the call hold the OWNER TO statement
OwnerExecuted ==
    \E n \in (DOMAIN executed') \ (DOMAIN executed) :
        \E st \in Range(executed'[n].sql) : IsOwnerTo(st)

\* C24: a planning without error of an existing table whose YAML owner is not
\* empty and differs from the LiveModel's owner emits ALTER TABLE s.t OWNER TO
\* <owner>; without a dry-run sink and without an execution error the statement
\* is executed and the table is counted as modified, also when the owner is the
\* only divergence of the table.
C24_OwnerChange ==
    [][(OnExisting /\ ~IsSome(NewPlan.err) /\ OwnerDiffers) =>
          /\ OwnerEmitted
          /\ (~sink /\ ~NewPlan.failed) =>
                /\ OwnerExecuted
                /\ cnt' = cnt + 1]_vars

\* what holds: the statement is emitted in the table's first batch
C24_OwnerEmitted ==
    [][(OnExisting /\ ~IsSome(NewPlan.err) /\ OwnerDiffers) =>
          \E st \in Range(NewPlan.batches[1]) : IsOwnerTo(st)]_vars

\* what holds: the statement is executed and the table counted exactly when
\* another change of the table makes Table::deploy execute
C24_OwnerExecutedWithOthers ==
    [][(OnExisting /\ ~IsSome(NewPlan.err) /\ OwnerDiffers /\ ~sink /\ ~NewPlan.failed) =>
          /\ OwnerExecuted <=> NewPlan.exec
          /\ cnt' = cnt + (IF NewPlan.exec THEN 1 ELSE 0)]_vars

\* --------------------------------------------------------------------------
\* The retry wrapper
\* --------------------------------------------------------------------------

\* the kinds of the DDL statements
DdlKinds ==
    {"CREATE SCHEMA", "CREATE TABLE", "ADD COLUMN", "ALTER COLUMN TYPE", "OWNER TO",
     "DROP CONSTRAINT", "ADD PRIMARY KEY", "CREATE TRIGGER", "DROP TRIGGER",
     "CREATE INDEX", "DROP INDEX", "ADD FOREIGN KEY"}

\* the ALTER TABLE statements of the table pass
AlterKinds == {"ADD COLUMN", "ALTER COLUMN TYPE", "OWNER TO", "DROP CONSTRAINT", "ADD PRIMARY KEY"}

\* retry wrapping is enabled for the table of the planning P
RetryEnabled(P) ==
    \/ ModelTable(P.s, P.t).transaction \in {"table", "retry"}
    \/ options.with_ddl_retry

\* the plannings of the run under way
PlansOfRun == {plans[i] : i \in {j \in DOMAIN plans : plans[j].run = run}}

\* C25: when retry wrapping is enabled for a table (its transaction field is table
\* or retry, or with_ddl_retry is set) every DDL statement emitted for the table
\* is wrapped in the retry block; when it is not enabled none is.
C25_RetryWrapping ==
    \A P \in PlansOfRun : \A st \in Range(Statements(P)) :
        st.k \in DdlKinds => (st.wrap <=> RetryEnabled(P))

\* what holds: the ALTER TABLE statements of the table pass are wrapped exactly
\* when with_ddl_retry is set, the foreign-key statements exactly when migrate is
\* called with retry, and no other statement is wrapped; the transaction field
\* has no part in it
C25_WrappedByOption ==
    \A P \in PlansOfRun : \A st \in Range(Statements(P)) :
        st.wrap <=> \/ st.k \in AlterKinds /\ options.with_ddl_retry
                    \/ st.k = "ADD FOREIGN KEY" /\ retry

\* a table with transaction: retry was created with with_ddl_retry set
C25_Reached ==
    /\ options.with_ddl_retry
    /\ \E P \in PlansOfRun :
          /\ ModelTable(P.s, P.t).transaction = "retry"
          /\ \E st \in Range(Statements(P)) : st.k = "CREATE TABLE"
          /\ \E st \in Range(Statements(P)) : st.k = "OWNER TO" /\ st.wrap

\* --------------------------------------------------------------------------
\* The LiveModel load_info_schema returns
\* --------------------------------------------------------------------------

\* the tables of the database, as <<schema, table>>
DbTables == UNION {{<<s, t>> : t \in DOMAIN txdb[s]} : s \in DOMAIN txdb}

\* the LiveModel holds the table x with the indexes, the grants and the primary
\* key the database has for it
Reflects(x) ==
    /\ x[1] \in DOMAIN live
    /\ x[2] \in DOMAIN live[x[1]]
    /\ DOMAIN live[x[1]][x[2]].indexes = DOMAIN txdb[x[1]][x[2]].indexes
    /\ DOMAIN live[x[1]][x[2]].grants = DOMAIN txdb[x[1]][x[2]].grants
    /\ live[x[1]][x[2]].primary_key = txdb[x[1]][x[2]].primary_key

\* C26: when load_info_schema has returned and planning is about to begin, the
\* LiveModel holds, for every table of the database, the indexes, the grants
\* and the primary key the database has; a failure of the loader ends the
\* migration with an error.
C26_LoaderReflects ==
    /\ pc = "parse" => \A x \in DbTables : Reflects(x)
    /\ (pc = "failed" /\ model = <<>> /\ plans = <<>>) => result.state = "err"

\* what holds: the LiveModel holds every table of the database with its columns,
\* foreign keys, triggers and owner, and no index, grant or primary key
C26_LoaderColumnsOnly ==
    pc = "parse" =>
        \A x \in DbTables :
            /\ x[1] \in DOMAIN live
            /\ x[2] \in DOMAIN live[x[1]]
            /\ DOMAIN live[x[1]][x[2]].columns = DOMAIN txdb[x[1]][x[2]].columns
            /\ DOMAIN live[x[1]][x[2]].triggers = DOMAIN txdb[x[1]][x[2]].triggers
            /\ live[x[1]][x[2]].owner = Some(txdb[x[1]][x[2]].owner)
            /\ live[x[1]][x[2]].indexes = EmptyMap
            /\ live[x[1]][x[2]].grants = EmptyMap
            /\ live[x[1]][x[2]].primary_key = None

\* the loader has returned on a database that holds a table with a primary key,
\* an index and a grant
C26_Reached ==
    /\ pc = "parse"
    /\ \E x \in DbTables :
          /\ IsSome(txdb[x[1]][x[2]].primary_key)
          /\ DOMAIN txdb[x[1]][x[2]].indexes # {}
          /\ DOMAIN txdb[x[1]][x[2]].grants # {}


\* --------------------------------------------------------------------------
\* What planning leaves alone (specification SpecPlan)
\* --------------------------------------------------------------------------

\* the document declares the table t of the schema s; the columns and the
\* foreign-key columns it declares for it
IsDeclared(s, t) ==
    \E i \in DOMAIN model : /\ model[i].schema_name = s
                            /\ \E T \in Range(model[i].tables) : T.table_name = t
DeclaredColumns(s, t) ==
    IF IsDeclared(s, t) THEN {c.name : c \in Range(ModelTable(s, t).columns)} ELSE {}
DeclaredFks(s, t) ==
    IF IsDeclared(s, t)
    THEN {c.name : c \in {d \in Range(ModelTable(s, t).columns) : IsSome(d.fk)}}
    ELSE {}

\* the entries of the map old under the keys K are in the map new, unchanged
KeptEntries(old, new, K) == \A x \in K : x \in DOMAIN new /\ new[x] = old[x]

\* a step keeps the table t of the schema s in the LiveModel, with the columns and
\* the foreign keys the document does not declare, and the whole entry of a table
\* the document does not declare
KeptTable(s, t) ==
    /\ s \in DOMAIN live'
    /\ t \in DOMAIN live'[s]
    /\ KeptEntries(live[s][t].columns, live'[s][t].columns,
                   DOMAIN live[s][t].columns \ DeclaredColumns(s, t))
    /\ KeptEntries(live[s][t].fks, live'[s][t].fks,
                   DOMAIN live[s][t].fks \ DeclaredFks(s, t))
    /\ ~IsDeclared(s, t) => live'[s][t] = live[s][t]

\* the statements of a planning drop nothing but a trigger, an index, or the
\* primary-key constraint the LiveModel records for the table
NonDropKinds ==
    {"CREATE SCHEMA", "CREATE TABLE", "ADD COLUMN", "ALTER COLUMN TYPE", "OWNER TO",
     "ADD PRIMARY KEY", "CREATE TRIGGER", "DROP TRIGGER", "CREATE INDEX", "DROP INDEX",
     "ADD FOREIGN KEY", "COMMENT ON COLUMN", "COMMENT ON TABLE", "GRANT", "REVOKE", "INSERT"}
DropsNothing(st) ==
    \/ st.k \in NonDropKinds
    \/ /\ st.k = "DROP CONSTRAINT"
       /\ IsSome(live[st.s][st.t].primary_key)
       /\ st.name = live[st.s][st.t].primary_key[1].constraint_name
       /\ st.name \notin DOMAIN txdb[st.s][st.t].fks

\* the LiveModel holds something the document does not declare: a schema, a table,
\* a column and a foreign key
HasUndeclared ==
    /\ \E s \in DOMAIN live : \A t \in DOMAIN live[s] : ~IsDeclared(s, t)
    /\ \E s \in DOMAIN live : \E t, u \in DOMAIN live[s] :
          /\ IsDeclared(s, t)
          /\ ~IsDeclared(s, u)
          /\ DOMAIN live[s][t].columns \ DeclaredColumns(s, t) # {}
          /\ DOMAIN live[s][t].fks \ DeclaredFks(s, t) # {}

\* C27: a planning emits no statement that drops a column, a table, a schema or a
\* foreign key, and every step leaves in the LiveModel, unchanged, every schema,
\* table, column and foreign key the document does not declare
C27_Frame ==
    [][/\ \A s \in DOMAIN live : \A t \in DOMAIN live[s] : KeptTable(s, t)
       /\ plans' # plans => \A st \in Range(Statements(NewPlan)) : DropsNothing(st)]_vars

\* both passes planned a table on a LiveModel with undeclared objects, and the
\* table pass replaced the primary key
C27_Witness ==
    /\ HasUndeclared
    /\ pc = "fks"
    /\ step > Len(Work(model, 1, 1))
    /\ \E i \in DOMAIN plans : \E st \in Range(Statements(plans[i])) : st.k = "DROP CONSTRAINT"

\* a column type was changed on a LiveModel with undeclared objects
C27_WitnessType ==
    /\ HasUndeclared
    /\ \E i \in DOMAIN plans : \E st \in Range(Statements(plans[i])) : st.k = "ALTER COLUMN TYPE"


\* --------------------------------------------------------------------------
\* The statement sequences of a dry run (specification SpecPlan)
\* --------------------------------------------------------------------------

\* Table::deploy is about to plan a table for a sink
DryRunPlanning ==
    /\ sink
    /\ pc = "tables"
    /\ step <= Len(Work(model, 1, 1))

\* the batches the sink can be handed by the planning that is about to run: one
\* sequence for every iteration order of the HashMaps
SinkBatches ==
    {deploy_plan(NextTable, NextSchema, live, options, ord).batches :
        ord \in deploy_orders(NextTable, NextSchema, live)}

\* C28: planning is deterministic: the document, the LiveModel and the options
\* determine the statement sequence a dry run hands the sink
C28_Deterministic == DryRunPlanning => Cardinality(SinkBatches) <= 1

\* the document, the LiveModel and the options determine the statements of every
\* batch, not their order
C28_SameStatements ==
    DryRunPlanning =>
        \A a, b \in SinkBatches :
            /\ Len(a) = Len(b)
            /\ \A i \in DOMAIN a : /\ Len(a[i]) = Len(b[i])
                                    /\ Range(a[i]) = Range(b[i])

\* a dry run is about to plan a table with two grantees or two indexes
C28_Reached ==
    /\ DryRunPlanning
    /\ Cardinality(deploy_orders(NextTable, NextSchema, live)) > 1


\* --------------------------------------------------------------------------
\* The capacity of a column after a type change that needs no withSizeCut
\* (specification SpecTypes)
\* --------------------------------------------------------------------------

\* the normalised base, the size and the scale of the existing type
ExistingBase == normalize_base(parse_type_size(existing_str).base)
ExistingSize == parse_type_size(existing_str).size
ExistingScale == parse_type_size(existing_str).scale
DesiredScale == parse_type_size(desired_str).scale

\* the character types, which hold texts up to their size, any text without one
CharacterBases == {<<"varchar">>, <<"char">>, <<"text">>}

\* the call made classified a change Table::deploy applies without withSizeCut
AppliedWithoutSizeCut ==
    /\ Called
    /\ change \in {"SizeExtension", "Compatible"}

\* the length limit of the desired type is at least the existing type's, no limit
\* counting as unbounded
KeepsLength ==
    IsSome(DesiredSize) => (IsSome(ExistingSize) /\ DesiredSize[1] >= ExistingSize[1])

\* the scale neither decreases nor disappears
KeepsScale ==
    IsSome(ExistingScale) => (IsSome(DesiredScale) /\ DesiredScale[1] >= ExistingScale[1])

\* C29: a type change classified SizeExtension or Compatible never lowers the
\* capacity of the column: between character types the desired length limit is at
\* least the existing one, between numeric types the scale neither decreases nor
\* disappears
C29_Capacity ==
    AppliedWithoutSizeCut =>
        /\ (ExistingBase \in CharacterBases /\ DesiredBase \in CharacterBases) => KeepsLength
        /\ (ExistingBase = <<"numeric">> /\ DesiredBase = <<"numeric">>) => KeepsScale

\* what holds: between two types of the same base that both give a size, the size
\* does not decrease, and between two that both give a scale under the same
\* precision, the scale does not decrease
C29_SizedSameBase ==
    (AppliedWithoutSizeCut /\ ExistingBase = DesiredBase
       /\ IsSome(ExistingSize) /\ IsSome(DesiredSize)) =>
        /\ DesiredSize[1] >= ExistingSize[1]
        /\ (DesiredSize = ExistingSize /\ IsSome(ExistingScale) /\ IsSome(DesiredScale)) =>
              DesiredScale[1] >= ExistingScale[1]

\* the three cases C29 names
C29_VarcharGetsLimit ==
    (Called /\ existing_str = <<"varchar">> /\ desired_str = Sized("varchar", 9)) =>
        ~AppliedWithoutSizeCut
C29_CharToShorterVarchar ==
    (Called /\ existing_str = Sized("char", 10) /\ desired_str = Sized("varchar", 9)) =>
        ~AppliedWithoutSizeCut
C29_ScaleDisappears ==
    (Called /\ existing_str = Scaled("numeric", 10, 2) /\ desired_str = Sized("numeric", 10)) =>
        ~AppliedWithoutSizeCut


\* --------------------------------------------------------------------------
\* The primary key of a column added to an existing table (specification SpecPlan)
\* --------------------------------------------------------------------------

\* the call planned an ADD COLUMN with an inline primary key and an ADD PRIMARY
\* KEY that lists the same column
DeclaredTwice ==
    \E st \in Planned({"ADD COLUMN"}) : \E a \in Planned({"ADD PRIMARY KEY"}) :
        /\ st.def.primary_key
        /\ st.c \in Range(a.columns)

\* C30: in the plan of an existing table, the statements never hold both an inline
\* primary key in the ADD COLUMN of a column and an ADD PRIMARY KEY listing it
C30_PrimaryKeyOnce == [][OnExisting => ~DeclaredTwice]_vars

\* what holds: the two appear together only when withIndexDrop is true and the
\* LiveModel gives the table at most one primary-key column
C30_TwiceOnlyWithIndexDrop ==
    [][(OnExisting /\ DeclaredTwice) =>
          (options.with_index_drop /\ ~pks_is_some(LiveTable))]_vars

\* a primary-key column was added to an existing table
C30_Reached ==
    \E i \in DOMAIN plans : \E st \in Range(Statements(plans[i])) :
        st.k = "ADD COLUMN" /\ st.def.primary_key

====
